---- MODULE Spec2Model ----
(***************************************************************************)
(* A model of the particle simulator: Vector3 arithmetic, Particle,        *)
(* force generators, Spring, Constraint, the Euler and Verlet integrators  *)
(* and the Simulation::Update pipeline.                                    *)
(*                                                                         *)
(* float is modelled as signed fixed point: the integer n stands for the   *)
(* real n / Scale.  Products and quotients are rounded to the nearest      *)
(* representable value, ties away from zero, so that, as in IEEE           *)
(* arithmetic, (-a)*b = -(a*b).  Squared lengths are kept at double scale  *)
(* (n stands for n / Scale^2) so that a length keeps its precision.        *)
(***************************************************************************)
EXTENDS Integers, Sequences, FiniteSets, TLC

\* ---------------------------------------------------------------- bounds
Scale == 1000
MaxSteps == 16
MaxCalls == 3
MaxRegistrations == 2

\* ------------------------------------------------------- float arithmetic
Abs(n) == IF n < 0 THEN -n ELSE n

Sgn(n) == IF n < 0 THEN -1 ELSE IF n > 0 THEN 1 ELSE 0

\* n / d rounded to the nearest integer, ties away from zero (d > 0)
RoundDiv(n, d) == Sgn(n) * ((2 * Abs(n) + d) \div (2 * d))

\* float * float
Mul(a, b) == RoundDiv(a * b, Scale)

\* float / float  (b # 0)
Div(a, b) == Sgn(b) * RoundDiv(a * Scale, Abs(b))

RECURSIVE SqrtSearch(_, _, _)
SqrtSearch(n, lo, hi) ==
    IF lo >= hi THEN lo
    ELSE LET mid == (lo + hi + 1) \div 2
         IN IF mid * mid <= n THEN SqrtSearch(n, mid, hi)
            ELSE SqrtSearch(n, lo, mid - 1)

\* std::sqrt of a double-scale value, rounded to nearest
Sqrt(n) ==
    LET r == SqrtSearch(n, 0, 46340)
    IN IF n - r * r > r THEN r + 1 ELSE r

\* ---------------------------------------------------------------- Vector3
Vec(x, y, z) == <<x, y, z>>

Zero3 == <<0, 0, 0>>

VAdd(a, b) == <<a[1] + b[1], a[2] + b[2], a[3] + b[3]>>

VSub(a, b) == <<a[1] - b[1], a[2] - b[2], a[3] - b[3]>>

VNeg(a) == <<-a[1], -a[2], -a[3]>>

\* Vector3 * float
VScale(v, s) == <<Mul(v[1], s), Mul(v[2], s), Mul(v[3], s)>>

\* Vector3 / float
VDiv(v, s) == <<Div(v[1], s), Div(v[2], s), Div(v[3], s)>>

Dot(a, b) == Mul(a[1], b[1]) + Mul(a[2], b[2]) + Mul(a[3], b[3])

\* x*x + y*y + z*z, at double scale
SqrLength(v) == v[1] * v[1] + v[2] * v[2] + v[3] * v[3]

Length(v) == Sqrt(SqrLength(v))

\* --------------------------------------------------------------- Particle
kActive == "kActive"
kFixed == "kFixed"

\* Particle::Particle(mass, radius, position, velocity, color, type)
Particle(mass, radius, position, velocity, type) ==
    [mass |-> mass, radius |-> radius, position |-> position,
     velocity |-> velocity, previous_position |-> position,
     force_accumulator |-> Zero3, type |-> type]

\* Particle::AddForce without the test of the type
AddForceAnyType(p, force) ==
    [p EXCEPT !.force_accumulator = VAdd(p.force_accumulator, force)]

\* Particle::AddForce
AddForce(p, force) ==
    IF p.type # kFixed
    THEN [p EXCEPT !.force_accumulator = VAdd(p.force_accumulator, force)]
    ELSE p

\* Particle::ClearForceAccumulator
ClearForceAccumulator(p) == [p EXCEPT !.force_accumulator = Zero3]

\* ------------------------------------------------------- force generators
\* GravityForceGenerator::GravityForceGenerator(acceleration)
Gravity(acceleration) == [kind |-> "gravity", acceleration |-> acceleration]

\* Medium::Medium(drag_coefficient)
Medium(drag_coefficient) ==
    [kind |-> "medium", drag_coefficient |-> drag_coefficient]

\* new Medium(drag_coefficient): the exception thrown and the Medium made,
\* if any
ConstructMedium(drag_coefficient) ==
    IF drag_coefficient < 0
    THEN [thrown |-> "invalid_argument", made |-> <<>>]
    ELSE [thrown |-> "none", made |-> <<Medium(drag_coefficient)>>]

\* set_drag_coefficient that stores the value before it tests it
SetDragCoefficientStoresFirst(m, drag_coefficient) ==
    [thrown |-> IF drag_coefficient < 0 THEN "invalid_argument" ELSE "none",
     medium |-> [m EXCEPT !.drag_coefficient = drag_coefficient]]

\* Medium::set_drag_coefficient: the exception thrown and the Medium
\* afterwards
SetDragCoefficient(m, drag_coefficient) ==
    IF drag_coefficient < 0
    THEN [thrown |-> "invalid_argument", medium |-> m]
    ELSE [thrown |-> "none",
          medium |-> [m EXCEPT !.drag_coefficient = drag_coefficient]]

\* GravityForceGenerator::ApplyForce without the test of the mass
GravityApplyForceAnyMass(g, p) == AddForce(p, VScale(g.acceleration, p.mass))

\* GravityForceGenerator::ApplyForce
GravityApplyForce(g, p) ==
    IF p.mass <= 0 THEN p
    ELSE AddForce(p, VScale(g.acceleration, p.mass))

\* Medium::ApplyForce that assigns the drag force to the accumulator
MediumApplyForceOverwrites(m, p) ==
    IF p.type # kFixed
    THEN [p EXCEPT
            !.force_accumulator = VScale(p.velocity, -m.drag_coefficient)]
    ELSE p

\* Medium::ApplyForce
MediumApplyForce(m, p) == AddForce(p, VScale(p.velocity, -m.drag_coefficient))

\* ForceGenerator::ApplyForce (virtual dispatch)
ApplyForce(fg, p) ==
    IF fg.kind = "gravity" THEN GravityApplyForce(fg, p)
    ELSE MediumApplyForce(fg, p)

\* ----------------------------------------------------------------- Spring
\* current_length < 1e-6f: 1e-6 lies below the resolution 1/Scale, so the
\* smallest positive length stands for it.
kLengthEpsilon == 1

\* Spring::Spring(stiffness, damping, particle_a, particle_b, rest_length);
\* particle_a and particle_b are indices into the particle list.
Spring(stiffness, damping, a, b, rest_length) ==
    [stiffness |-> stiffness, damping |-> damping, rest_length |-> rest_length,
     particle_a |-> a, particle_b |-> b]

\* nullptr, where a Particle* is an index into the particle list
kNull == 0

\* ValidateSpringParameters that lets a stiffness of zero pass
ValidateSpringAllowsZero(stiffness, damping, p_a, p_b, rest_length) ==
    IF p_a = kNull \/ p_b = kNull THEN "invalid_argument"
    ELSE IF p_a = p_b THEN "invalid_argument"
    ELSE IF stiffness < 0 THEN "invalid_argument"
    ELSE IF damping < 0 THEN "invalid_argument"
    ELSE IF rest_length < 0 THEN "invalid_argument"
    ELSE "none"

\* ValidateSpringParameters: the exception it throws, "none" when it returns
ValidateSpringParameters(stiffness, damping, p_a, p_b, rest_length) ==
    IF p_a = kNull \/ p_b = kNull THEN "invalid_argument"
    ELSE IF p_a = p_b THEN "invalid_argument"
    ELSE IF stiffness <= 0 THEN "invalid_argument"
    ELSE IF damping < 0 THEN "invalid_argument"
    ELSE IF rest_length < 0 THEN "invalid_argument"
    ELSE "none"

\* Spring::Spring(stiffness, damping, particle_a, particle_b) after its
\* validation: the rest length is the distance of the particles
SpringComputed(ps, stiffness, damping, a, b) ==
    LET direction == VSub(ps[a].position, ps[b].position)
        rest_length == Length(direction)
    IN Spring(stiffness, damping, a, b,
              IF rest_length < kLengthEpsilon THEN 0 ELSE rest_length)

\* either constructor of Spring (explicit tells which): the exception thrown
\* and the Spring made, if any
ConstructSpring(ps, stiffness, damping, a, b, explicit, rest_length) ==
    LET exc == ValidateSpringParameters(stiffness, damping, a, b,
                                        IF explicit THEN rest_length ELSE 0)
    IN IF exc # "none" THEN [thrown |-> exc, made |-> <<>>]
       ELSE [thrown |-> "none",
             made |-> <<IF explicit
                        THEN Spring(stiffness, damping, a, b, rest_length)
                        ELSE SpringComputed(ps, stiffness, damping, a, b)>>]

\* total_force with Hooke's law pushing a stretched spring further apart
SpringTotalForcePushes(ps, s) ==
    LET direction == VSub(ps[s.particle_a].position, ps[s.particle_b].position)
        current_length == Length(direction)
        unit_direction == VDiv(direction, current_length)
        relative_velocity ==
            VSub(ps[s.particle_a].velocity, ps[s.particle_b].velocity)
        velocity_along_direction == Dot(relative_velocity, unit_direction)
        spring_magnitude == Mul(s.stiffness, current_length - s.rest_length)
        damping_magnitude == -Mul(s.damping, velocity_along_direction)
    IN VScale(unit_direction, spring_magnitude + damping_magnitude)

\* The force Spring::ApplyForce computes for particle_a (total_force)
SpringTotalForce(ps, s) ==
    LET direction == VSub(ps[s.particle_a].position, ps[s.particle_b].position)
        current_length == Length(direction)
        unit_direction == VDiv(direction, current_length)
        relative_velocity ==
            VSub(ps[s.particle_a].velocity, ps[s.particle_b].velocity)
        velocity_along_direction == Dot(relative_velocity, unit_direction)
        spring_magnitude == -Mul(s.stiffness, current_length - s.rest_length)
        damping_magnitude == -Mul(s.damping, velocity_along_direction)
        total_magnitude == spring_magnitude + damping_magnitude
    IN VScale(unit_direction, total_magnitude)

\* Spring::ApplyForce that gives both endpoints the same force
SpringApplyForceSameSign(ps, s) ==
    LET direction == VSub(ps[s.particle_a].position, ps[s.particle_b].position)
    IN IF Length(direction) < kLengthEpsilon THEN ps
       ELSE LET total_force == SpringTotalForce(ps, s)
            IN [ps EXCEPT
                  ![s.particle_a] = AddForce(ps[s.particle_a], total_force),
                  ![s.particle_b] = AddForce(ps[s.particle_b], total_force)]

\* Spring::ApplyForce that measures the stretch from length zero
SpringApplyForceNoRest(ps, s) ==
    LET direction == VSub(ps[s.particle_a].position, ps[s.particle_b].position)
    IN IF Length(direction) < kLengthEpsilon THEN ps
       ELSE LET total_force ==
                    SpringTotalForce(ps, [s EXCEPT !.rest_length = 0])
            IN [ps EXCEPT
                  ![s.particle_a] = AddForce(ps[s.particle_a], total_force),
                  ![s.particle_b] = AddForce(ps[s.particle_b], VNeg(total_force))]

\* Spring::ApplyForce that takes the x axis for the direction of coincident
\* endpoints
SpringApplyForceCoincidentAlongX(ps, s) ==
    LET direction == VSub(ps[s.particle_a].position, ps[s.particle_b].position)
        current_length == Length(direction)
        total_force == IF current_length < kLengthEpsilon
                       THEN <<Mul(s.stiffness, s.rest_length), 0, 0>>
                       ELSE SpringTotalForce(ps, s)
    IN [ps EXCEPT
          ![s.particle_a] = AddForce(ps[s.particle_a], total_force),
          ![s.particle_b] = AddForce(ps[s.particle_b], VNeg(total_force))]

\* Spring::ApplyForce, on the particle list ps
SpringApplyForce(ps, s) ==
    LET direction == VSub(ps[s.particle_a].position, ps[s.particle_b].position)
        current_length == Length(direction)
    IN IF current_length < kLengthEpsilon THEN ps
       ELSE LET total_force == SpringTotalForce(ps, s)
            IN [ps EXCEPT
                  ![s.particle_a] = AddForce(ps[s.particle_a], total_force),
                  ![s.particle_b] = AddForce(ps[s.particle_b], VNeg(total_force))]

\* ------------------------------------------------------------- Constraint
\* Constraint::Constraint(length, particle_a, particle_b)
Constraint(length, a, b) ==
    [length |-> length, particle_a |-> a, particle_b |-> b]

kHalf == Scale \div 2

\* Constraint::Constraint(length, particle_a, particle_b): the exception
\* thrown and the Constraint made, if any
ConstructConstraint(length, a, b) ==
    IF a = kNull \/ b = kNull THEN [thrown |-> "invalid_argument", made |-> <<>>]
    ELSE IF a = b THEN [thrown |-> "invalid_argument", made |-> <<>>]
    ELSE IF length < 0 THEN [thrown |-> "invalid_argument", made |-> <<>>]
    ELSE [thrown |-> "none", made |-> <<Constraint(length, a, b)>>]

\* SatisfyConstraint that moves two movable endpoints by the whole correction
SatisfyConstraintFullBoth(ps, c) ==
    LET pos_a == ps[c.particle_a].position
        pos_b == ps[c.particle_b].position
        delta == VSub(pos_b, pos_a)
        current_length == Length(delta)
    IN IF current_length < kLengthEpsilon THEN ps
       ELSE
        LET diff == current_length - c.length
            correction_vector == VScale(delta, Div(diff, current_length))
            fixed_a == ps[c.particle_a].type = kFixed
            fixed_b == ps[c.particle_b].type = kFixed
            new_a == IF ~fixed_a THEN VAdd(pos_a, correction_vector)
                     ELSE pos_a
            new_b == IF ~fixed_b THEN VSub(pos_b, correction_vector)
                     ELSE pos_b
        IN [ps EXCEPT ![c.particle_a].position = new_a,
                      ![c.particle_b].position = new_b]

\* SatisfyConstraint that also stops the endpoints it moves
SatisfyConstraintStops(ps, c) ==
    LET pos_a == ps[c.particle_a].position
        pos_b == ps[c.particle_b].position
        delta == VSub(pos_b, pos_a)
        current_length == Length(delta)
    IN IF current_length < kLengthEpsilon THEN ps
       ELSE
        LET diff == current_length - c.length
            correction_vector == VScale(delta, Div(diff, current_length))
            fixed_a == ps[c.particle_a].type = kFixed
            fixed_b == ps[c.particle_b].type = kFixed
            weight_a == IF ~fixed_a /\ ~fixed_b THEN kHalf
                        ELSE IF ~fixed_a /\ fixed_b THEN Scale
                        ELSE 0
            weight_b == IF ~fixed_a /\ ~fixed_b THEN kHalf
                        ELSE IF fixed_a /\ ~fixed_b THEN Scale
                        ELSE 0
            moved_a == [ps[c.particle_a] EXCEPT
                          !.position =
                              VAdd(pos_a, VScale(correction_vector, weight_a)),
                          !.velocity = Zero3]
            moved_b == [ps[c.particle_b] EXCEPT
                          !.position =
                              VSub(pos_b, VScale(correction_vector, weight_b)),
                          !.velocity = Zero3]
        IN [ps EXCEPT
              ![c.particle_a] = IF weight_a > 0 THEN moved_a ELSE @,
              ![c.particle_b] = IF weight_b > 0 THEN moved_b ELSE @]

\* SatisfyConstraint that measures the difference as length_ - current_length
SatisfyConstraintAway(ps, c) ==
    LET pos_a == ps[c.particle_a].position
        pos_b == ps[c.particle_b].position
        delta == VSub(pos_b, pos_a)
        current_length == Length(delta)
    IN IF current_length < kLengthEpsilon THEN ps
       ELSE
        LET diff == c.length - current_length
            correction_vector == VScale(delta, Div(diff, current_length))
            fixed_a == ps[c.particle_a].type = kFixed
            fixed_b == ps[c.particle_b].type = kFixed
            weight_a == IF ~fixed_a /\ ~fixed_b THEN kHalf
                        ELSE IF ~fixed_a /\ fixed_b THEN Scale
                        ELSE 0
            weight_b == IF ~fixed_a /\ ~fixed_b THEN kHalf
                        ELSE IF fixed_a /\ ~fixed_b THEN Scale
                        ELSE 0
            new_a == IF weight_a > 0
                     THEN VAdd(pos_a, VScale(correction_vector, weight_a))
                     ELSE pos_a
            new_b == IF weight_b > 0
                     THEN VSub(pos_b, VScale(correction_vector, weight_b))
                     ELSE pos_b
        IN [ps EXCEPT ![c.particle_a].position = new_a,
                      ![c.particle_b].position = new_b]

\* Constraint::SatisfyConstraint, on the particle list ps
SatisfyConstraint(ps, c) ==
    LET pos_a == ps[c.particle_a].position
        pos_b == ps[c.particle_b].position
        delta == VSub(pos_b, pos_a)
        current_length == Length(delta)
    IN IF current_length < kLengthEpsilon THEN ps
       ELSE
        LET diff == current_length - c.length
            correction_vector == VScale(delta, Div(diff, current_length))
            fixed_a == ps[c.particle_a].type = kFixed
            fixed_b == ps[c.particle_b].type = kFixed
            weight_a == IF ~fixed_a /\ ~fixed_b THEN kHalf
                        ELSE IF fixed_a /\ ~fixed_b THEN 0
                        ELSE IF ~fixed_a /\ fixed_b THEN Scale
                        ELSE 0
            weight_b == IF ~fixed_a /\ ~fixed_b THEN kHalf
                        ELSE IF fixed_a /\ ~fixed_b THEN Scale
                        ELSE 0
            new_a == IF weight_a > 0
                     THEN VAdd(pos_a, VScale(correction_vector, weight_a))
                     ELSE pos_a
            new_b == IF weight_b > 0
                     THEN VSub(pos_b, VScale(correction_vector, weight_b))
                     ELSE pos_b
        IN [ps EXCEPT ![c.particle_a].position = new_a,
                      ![c.particle_b].position = new_b]

\* ------------------------------------------------------------ integrators
Euler == [kind |-> "euler", drag |-> 0]

\* std::clamp(v, lo, hi)
Clamp(v, lo, hi) == IF v < lo THEN lo ELSE IF v > hi THEN hi ELSE v

\* VerletIntegrator::VerletIntegrator(drag)
Verlet(drag) == [kind |-> "verlet", drag |-> Clamp(drag, 0, Scale)]

\* set_drag that stores its argument as it is
SetDragUnclamped(integ, drag) == [integ EXCEPT !.drag = drag]

\* VerletIntegrator::set_drag
SetDrag(integ, drag) == [integ EXCEPT !.drag = Clamp(drag, 0, Scale)]

\* the 1e-9f of VerletIntegrator::Integrate: the smallest positive time step
\* of the model stands for the positive time steps up to 1e-9
kDtEpsilon == 1

\* Integrate of the semi-implicit Euler method: the position moves with the
\* velocity the acceleration has already changed
EulerIntegrateSemiImplicit(acceleration, p, dt) ==
    IF dt <= 0 THEN p
    ELSE LET velocity == VAdd(p.velocity, VScale(acceleration, dt))
         IN [p EXCEPT !.position = VAdd(p.position, VScale(velocity, dt)),
                      !.velocity = velocity]

\* Integrate of the Euler method without the test of the time step
EulerIntegrateAnyStep(acceleration, p, dt) ==
    [p EXCEPT !.position = VAdd(p.position, VScale(p.velocity, dt)),
              !.velocity = VAdd(p.velocity, VScale(acceleration, dt))]

\* EulerIntegrator::Integrate
EulerIntegrate(acceleration, p, dt) ==
    IF dt <= 0 THEN p
    ELSE [p EXCEPT !.position = VAdd(p.position, VScale(p.velocity, dt)),
                   !.velocity = VAdd(p.velocity, VScale(acceleration, dt))]

\* Integrate that multiplies the displacement by the drag itself
VerletIntegrateDragAsFactor(drag, acceleration, p, dt) ==
    IF dt <= kDtEpsilon THEN p
    ELSE LET temp_position == p.position
             displacement == VSub(p.position, p.previous_position)
             scaled_acceleration == VScale(acceleration, Mul(dt, dt))
         IN [p EXCEPT
               !.position = VAdd(VAdd(p.position, VScale(displacement, drag)),
                                 scaled_acceleration),
               !.previous_position = temp_position]

\* VerletIntegrator::Integrate
VerletIntegrate(drag, acceleration, p, dt) ==
    IF dt <= kDtEpsilon THEN p
    ELSE LET temp_position == p.position
             displacement == VSub(p.position, p.previous_position)
             scaled_acceleration == VScale(acceleration, Mul(dt, dt))
         IN [p EXCEPT
               !.position = VAdd(VAdd(p.position,
                                      VScale(displacement, Scale - drag)),
                                 scaled_acceleration),
               !.previous_position = temp_position]

\* Integrator::Integrate (virtual dispatch)
Integrate(integ, acceleration, p, dt) ==
    IF integ.kind = "euler" THEN EulerIntegrate(acceleration, p, dt)
    ELSE VerletIntegrate(integ.drag, acceleration, p, dt)

\* ------------------------------------------------------------------ Plane
\* Plane::Plane(normal, position, size, color)
Plane(normal, position) == [normal |-> normal, position |-> position]

\* -------------------------------------------- Simulation: registration
\* Simulation::AddConstraint: the exception that reaches the caller and
\* constraints_ afterwards
AddConstraint(cs, length, a, b) ==
    IF a # kNull /\ b # kNull /\ a # b
    THEN LET r == ConstructConstraint(length, a, b)
         IN IF r.thrown # "none"
            THEN [thrown |-> r.thrown, constraints |-> cs]
            ELSE [thrown |-> "none", constraints |-> cs \o r.made]
    ELSE [thrown |-> "none", constraints |-> cs]

\* Simulation::AddSpring: the exception that reaches the caller and springs_
\* afterwards (the catch clause swallows invalid_argument)
AddSpring(ps, spr, stiffness, damping, a, b) ==
    IF a # kNull /\ b # kNull /\ a # b
    THEN LET r == ConstructSpring(ps, stiffness, damping, a, b, FALSE, 0)
         IN IF r.thrown = "invalid_argument"
            THEN [thrown |-> "none", springs |-> spr]
            ELSE [thrown |-> r.thrown, springs |-> spr \o r.made]
    ELSE [thrown |-> "none", springs |-> spr]

\* A std::unique_ptr argument is the sequence of what it holds: <<>> when it
\* is null, <<object>> otherwise.

\* Simulation::set_dissipative_coefficient: dissipative_coefficient_ afterwards
set_dissipative_coefficient(dissipative) == dissipative

\* Simulation::AddPlane: planes_ afterwards
AddPlane(pls, plane) ==
    IF plane # <<>> THEN Append(pls, plane[1]) ELSE pls

\* Simulation::AddParticle: particles_ and the owning collections afterwards
AddParticle(ps, own, particle) ==
    IF particle # <<>>
    THEN [particles |-> Append(ps, particle[1]),
          owners |-> [own EXCEPT
                        !.owned_particles = Append(@, Len(ps) + 1)]]
    ELSE [particles |-> ps, owners |-> own]

\* Simulation::AddForceGenerator: force_generators_ afterwards
AddForceGenerator(fgs, force_generator) ==
    IF force_generator # <<>> THEN Append(fgs, force_generator[1]) ELSE fgs

\* Simulation::AddParticleGenerator, the loop from the k-th entry of the
\* generator's particles on: particles_, and where each entry was put
\* (kNull for a null entry, which is skipped)
RECURSIVE PushGenerated(_, _, _, _)
PushGenerated(ps, pointers, entries, k) ==
    IF k > Len(entries) THEN [particles |-> ps, pointers |-> pointers]
    ELSE IF entries[k] # <<>>
    THEN PushGenerated(Append(ps, entries[k][1]),
                       Append(pointers, Len(ps) + 1), entries, k + 1)
    ELSE PushGenerated(ps, Append(pointers, kNull), entries, k + 1)

\* Simulation::AddParticleGenerator
AddParticleGenerator(ps, own, particle_generator) ==
    IF particle_generator = <<>> THEN [particles |-> ps, owners |-> own]
    ELSE LET pushed == PushGenerated(ps, <<>>,
                                     particle_generator[1].particles, 1)
         IN [particles |-> pushed.particles,
             owners |-> [own EXCEPT
                           !.particle_generators =
                               Append(@, pushed.pointers)]]

\* Cube::Cube(center, size, particle_mass, particle_radius, color, type)
ConstructCube(center, size, particle_mass, particle_radius, type) ==
    LET half_size == Mul(size, kHalf)
        x_min == center[1] - half_size
        x_max == center[1] + half_size
        y_min == center[2] - half_size
        y_max == center[2] + half_size
        z_min == center[3] - half_size
        z_max == center[3] + half_size
        corners == << <<x_min, y_max, z_min>>, <<x_max, y_max, z_min>>,
                      <<x_max, y_max, z_max>>, <<x_min, y_max, z_max>>,
                      <<x_min, y_min, z_min>>, <<x_max, y_min, z_min>>,
                      <<x_max, y_min, z_max>>, <<x_min, y_min, z_max>> >>
    IN [particles |->
          [k \in 1..8 |->
              Particle(particle_mass, particle_radius, corners[k], Zero3,
                       type)]]

\* Simulation::AddCube that pushes the particles of the cube twice
AddCubeTwice(ps, own, cube) ==
    IF cube = <<>> THEN [particles |-> ps, owners |-> own]
    ELSE [particles |-> ps \o cube[1].particles \o cube[1].particles,
          owners |-> [own EXCEPT
                        !.cubes = Append(@, [k \in 1..Len(cube[1].particles)
                                               |-> Len(ps) + k])]]

\* Simulation::AddCube
AddCube(ps, own, cube) ==
    IF cube = <<>> THEN [particles |-> ps, owners |-> own]
    ELSE [particles |-> ps \o cube[1].particles,
          owners |-> [own EXCEPT
                        !.cubes = Append(@, [k \in 1..Len(cube[1].particles)
                                               |-> Len(ps) + k])]]

\* Cloth::Cloth(total_mass, particle_radius, n_u, n_v, p, p_u, p_v, color,
\* type); the particle of grid point (i, j) is particles[i * dim_v + j + 1]
ConstructCloth(total_mass, particle_radius, n_u, n_v, p, p_u, p_v, type) ==
    IF n_u <= 1 \/ n_v <= 1
    THEN [dim_u |-> 0, dim_v |-> 0, particles |-> <<>>]
    ELSE LET num_particles == n_u * n_v
             mass_per_particle == RoundDiv(total_mass, num_particles)
             d_u == VDiv(VSub(p_u, p), (n_u - 1) * Scale)
             d_v == VDiv(VSub(p_v, p), (n_v - 1) * Scale)
         IN [dim_u |-> n_u, dim_v |-> n_v,
             particles |->
               [index \in 1..num_particles |->
                  LET i == (index - 1) \div n_v
                      j == (index - 1) % n_v
                  IN Particle(mass_per_particle, particle_radius,
                              VAdd(VAdd(p, VScale(d_u, i * Scale)),
                                   VScale(d_v, j * Scale)),
                              Zero3, type)]]

\* Cloth::GetIndex
GetIndex(cloth, u, v) == u * cloth.dim_v + v

\* Simulation::AddCloth, the body of the loops for grid point (i, j): the
\* AddConstraint and AddSpring calls in order, as <<constrained, (u, v) of
\* the one particle, (u, v) of the other>>
ClothLinks(n_u, n_v, i, j) ==
    (IF i < n_u - 1 THEN << <<TRUE, i, j, i + 1, j>> >> ELSE <<>>)
    \o (IF j < n_v - 1 THEN << <<TRUE, i, j, i, j + 1>> >> ELSE <<>>)
    \o (IF i < n_u - 1 /\ j < n_v - 1
        THEN << <<FALSE, i, j, i + 1, j + 1>>, <<FALSE, i + 1, j, i, j + 1>> >>
        ELSE <<>>)
    \o (IF i < n_u - 2 THEN << <<FALSE, i, j, i + 2, j>> >> ELSE <<>>)
    \o (IF j < n_v - 2 THEN << <<FALSE, i, j, i, j + 2>> >> ELSE <<>>)

\* the calls of all grid points from (i, j) on, i outermost
RECURSIVE AllClothLinks(_, _, _, _)
AllClothLinks(n_u, n_v, i, j) ==
    IF i >= n_u THEN <<>>
    ELSE IF j >= n_v THEN AllClothLinks(n_u, n_v, i + 1, 0)
    ELSE ClothLinks(n_u, n_v, i, j) \o AllClothLinks(n_u, n_v, i, j + 1)

\* Simulation::AddCloth, the calls from the k-th on; ps are the particles
\* with those of the cloth pushed, base the number of particles registered
\* before the cloth, spr and cs the springs and constraints so far
RECURSIVE LinkCloth(_, _, _, _, _, _, _)
LinkCloth(ps, spr, cs, cloth, base, links, k) ==
    IF k > Len(links)
    THEN [springs |-> spr, constraints |-> cs, thrown |-> "none"]
    ELSE LET stiffness == 100 * Scale
             damping == Scale
             a == base + GetIndex(cloth, links[k][2], links[k][3]) + 1
             b == base + GetIndex(cloth, links[k][4], links[k][5]) + 1
             rest_length == Length(VSub(ps[a].position, ps[b].position))
             rod == IF links[k][1]
                    THEN AddConstraint(cs, rest_length, a, b)
                    ELSE [thrown |-> "none", constraints |-> cs]
             spring == AddSpring(ps, spr, stiffness, damping, a, b)
         IN IF rod.thrown # "none"
            THEN [springs |-> spr, constraints |-> cs, thrown |-> rod.thrown]
            ELSE IF spring.thrown # "none"
            THEN [springs |-> spr, constraints |-> rod.constraints,
                  thrown |-> spring.thrown]
            ELSE LinkCloth(ps, spring.springs, rod.constraints, cloth, base,
                           links, k + 1)

\* Simulation::AddCloth without the test of the dimensions
AddClothAnySize(ps, spr, cs, own, cloth) ==
    LET same == [particles |-> ps, springs |-> spr, constraints |-> cs,
                 owners |-> own, thrown |-> "none"]
    IN IF cloth = <<>> THEN same
       ELSE LET n_u == cloth[1].dim_u
                n_v == cloth[1].dim_v
                cloth_particles == cloth[1].particles
                pushed == ps \o cloth_particles
                linked == LinkCloth(pushed, spr, cs, cloth[1], Len(ps),
                                    AllClothLinks(n_u, n_v, 0, 0), 1)
            IN [particles |-> pushed,
                springs |-> linked.springs,
                constraints |-> linked.constraints,
                owners |->
                    [own EXCEPT
                       !.cloths = Append(@, [k \in 1..Len(cloth_particles)
                                               |-> Len(ps) + k])],
                thrown |-> linked.thrown]

\* Simulation::AddCloth: the collections afterwards and the exception that
\* reaches the caller
AddCloth(ps, spr, cs, own, cloth) ==
    LET same == [particles |-> ps, springs |-> spr, constraints |-> cs,
                 owners |-> own, thrown |-> "none"]
    IN IF cloth = <<>> THEN same
       ELSE LET n_u == cloth[1].dim_u
                n_v == cloth[1].dim_v
                cloth_particles == cloth[1].particles
            IN IF n_u <= 1 \/ n_v <= 1 THEN same
               ELSE LET pushed == ps \o cloth_particles
                        linked == LinkCloth(pushed, spr, cs, cloth[1], Len(ps),
                                            AllClothLinks(n_u, n_v, 0, 0), 1)
                    IN [particles |-> pushed,
                        springs |-> linked.springs,
                        constraints |-> linked.constraints,
                        owners |->
                            IF linked.thrown # "none" THEN own
                            ELSE [own EXCEPT
                                    !.cloths =
                                      Append(@, [k \in 1..Len(cloth_particles)
                                                   |-> Len(ps) + k])],
                        thrown |-> linked.thrown]

\* ------------------------------------------------- Simulation: the phases
\* the force generators applied in order to one particle
RECURSIVE ApplyGenerators(_, _, _)
ApplyGenerators(p, fgs, k) ==
    IF k > Len(fgs) THEN p
    ELSE ApplyGenerators(ApplyForce(fgs[k], p), fgs, k + 1)

\* Simulation::ApplyForces
ApplyForces(ps, fgs) ==
    [i \in DOMAIN ps |->
        IF ps[i].type = kActive THEN ApplyGenerators(ps[i], fgs, 1)
        ELSE ps[i]]

\* Simulation::UpdateSprings
RECURSIVE UpdateSprings(_, _, _)
UpdateSprings(ps, spr, k) ==
    IF k > Len(spr) THEN ps
    ELSE UpdateSprings(SpringApplyForce(ps, spr[k]), spr, k + 1)

\* Simulation::IntegrateParticles (mass > 1e-9f: below the resolution, mass > 0)
IntegrateParticles(ps, integ, dt) ==
    [i \in DOMAIN ps |->
        IF ps[i].type = kActive
        THEN LET mass == ps[i].mass
                 acceleration == IF mass > 0
                                 THEN VDiv(ps[i].force_accumulator, mass)
                                 ELSE Zero3
             IN Integrate(integ, acceleration, ps[i], dt)
        ELSE ps[i]]

constraint_iterations == 10

\* a run of UpdateConstraints: the particles so far and the
\* SatisfyConstraint calls made so far, <<pass, constraint>> in call order
Relaxation(ps) == [particles |-> ps, calls |-> <<>>]

\* a relaxation pass that visits the constraints from the last to the first
RECURSIVE ConstraintPassBackwards(_, _, _, _)
ConstraintPassBackwards(run, cs, i, k) ==
    IF k > Len(cs) THEN run
    ELSE ConstraintPassBackwards(
             [particles |-> SatisfyConstraint(run.particles,
                                              cs[Len(cs) + 1 - k]),
              calls |-> Append(run.calls, <<i, Len(cs) + 1 - k>>)],
             cs, i, k + 1)

\* one relaxation pass, number i: SatisfyConstraint on every constraint from
\* the k-th on, in order
RECURSIVE ConstraintPass(_, _, _, _)
ConstraintPass(run, cs, i, k) ==
    IF k > Len(cs) THEN run
    ELSE ConstraintPass(
             [particles |-> SatisfyConstraint(run.particles, cs[k]),
              calls |-> Append(run.calls, <<i, k>>)],
             cs, i, k + 1)

\* Simulation::UpdateConstraints, passes i .. constraint_iterations - 1
\* (without particles there are no constraints to satisfy; the test also
\* makes the result of a pass a value before the next pass starts)
RECURSIVE UpdateConstraints(_, _, _)
UpdateConstraints(run, cs, i) ==
    IF i >= constraint_iterations \/ Len(run.particles) = 0 THEN run
    ELSE UpdateConstraints(ConstraintPass(run, cs, i, 1), cs, i + 1)

\* ResolvePair that always splits the positional correction in halves
ResolvePairAlwaysSplit(ps, i, j, restitution) ==
    LET p1 == ps[i]
        p2 == ps[j]
        delta_pos == VSub(p1.position, p2.position)
        dist_sq == SqrLength(delta_pos)
        combined_radius == p1.radius + p2.radius
    IN IF ~(dist_sq < combined_radius * combined_radius /\ dist_sq > 0) THEN ps
       ELSE
        LET dist == Sqrt(dist_sq)
            normal == VDiv(delta_pos, dist)
            half == VScale(normal, Mul(combined_radius - dist, kHalf))
        IN [ps EXCEPT
              ![i].position = IF p1.type # kFixed
                              THEN VAdd(p1.position, half) ELSE p1.position,
              ![j].position = IF p2.type # kFixed
                              THEN VSub(p2.position, half) ELSE p2.position]

\* ResolvePair that applies the impulse whatever the sign of the velocity
\* along the normal
ResolvePairAnyApproach(ps, i, j, restitution) ==
    LET p1 == ps[i]
        p2 == ps[j]
        delta_pos == VSub(p1.position, p2.position)
        dist_sq == SqrLength(delta_pos)
        combined_radius == p1.radius + p2.radius
        combined_radius_sq == combined_radius * combined_radius
    IN IF ~(dist_sq < combined_radius_sq /\ dist_sq > 0) THEN ps
       ELSE
        LET dist == Sqrt(dist_sq)
            normal == VDiv(delta_pos, dist)
            penetration_depth == combined_radius - dist
            fixed1 == p1.type = kFixed
            fixed2 == p2.type = kFixed
            weight1 == IF ~fixed1 /\ ~fixed2 THEN kHalf
                       ELSE IF fixed1 /\ ~fixed2 THEN 0
                       ELSE IF ~fixed1 /\ fixed2 THEN Scale
                       ELSE 0
            weight2 == IF ~fixed1 /\ ~fixed2 THEN kHalf
                       ELSE IF fixed1 /\ ~fixed2 THEN Scale
                       ELSE 0
            pos1 == IF weight1 > 0
                    THEN VAdd(p1.position,
                              VScale(normal, Mul(penetration_depth, weight1)))
                    ELSE p1.position
            pos2 == IF weight2 > 0
                    THEN VSub(p2.position,
                              VScale(normal, Mul(penetration_depth, weight2)))
                    ELSE p2.position
            relative_velocity == VSub(p1.velocity, p2.velocity)
            velocity_along_normal == Dot(relative_velocity, normal)
            impulse_magnitude ==
                -Mul(Scale + restitution, velocity_along_normal)
            half_impulse == VScale(normal, Mul(impulse_magnitude, kHalf))
            full_impulse == VScale(normal, impulse_magnitude)
            vel1 == IF ~fixed1 /\ ~fixed2
                    THEN VAdd(p1.velocity, half_impulse)
                    ELSE IF ~fixed1 /\ fixed2
                    THEN VAdd(p1.velocity, full_impulse)
                    ELSE p1.velocity
            vel2 == IF ~fixed1 /\ ~fixed2
                    THEN VSub(p2.velocity, half_impulse)
                    ELSE IF fixed1 /\ ~fixed2
                    THEN VSub(p2.velocity, full_impulse)
                    ELSE p2.velocity
        IN [ps EXCEPT ![i].position = pos1, ![i].velocity = vel1,
                      ![j].position = pos2, ![j].velocity = vel2]

\* Simulation::HandleCollisions, the body of the particle-particle loop
ResolvePair(ps, i, j, restitution) ==
    LET p1 == ps[i]
        p2 == ps[j]
        delta_pos == VSub(p1.position, p2.position)
        dist_sq == SqrLength(delta_pos)
        combined_radius == p1.radius + p2.radius
        combined_radius_sq == combined_radius * combined_radius
    IN IF ~(dist_sq < combined_radius_sq /\ dist_sq > 0) THEN ps
       ELSE
        LET dist == Sqrt(dist_sq)
            normal == VDiv(delta_pos, dist)
            penetration_depth == combined_radius - dist
            fixed1 == p1.type = kFixed
            fixed2 == p2.type = kFixed
            weight1 == IF ~fixed1 /\ ~fixed2 THEN kHalf
                       ELSE IF fixed1 /\ ~fixed2 THEN 0
                       ELSE IF ~fixed1 /\ fixed2 THEN Scale
                       ELSE 0
            weight2 == IF ~fixed1 /\ ~fixed2 THEN kHalf
                       ELSE IF fixed1 /\ ~fixed2 THEN Scale
                       ELSE 0
            pos1 == IF weight1 > 0
                    THEN VAdd(p1.position,
                              VScale(normal, Mul(penetration_depth, weight1)))
                    ELSE p1.position
            pos2 == IF weight2 > 0
                    THEN VSub(p2.position,
                              VScale(normal, Mul(penetration_depth, weight2)))
                    ELSE p2.position
            relative_velocity == VSub(p1.velocity, p2.velocity)
            velocity_along_normal == Dot(relative_velocity, normal)
            impulse_magnitude ==
                -Mul(Scale + restitution, velocity_along_normal)
            half_impulse == VScale(normal, Mul(impulse_magnitude, kHalf))
            full_impulse == VScale(normal, impulse_magnitude)
            vel1 == IF velocity_along_normal < 0
                    THEN IF ~fixed1 /\ ~fixed2
                         THEN VAdd(p1.velocity, half_impulse)
                         ELSE IF ~fixed1 /\ fixed2
                         THEN VAdd(p1.velocity, full_impulse)
                         ELSE p1.velocity
                    ELSE p1.velocity
            vel2 == IF velocity_along_normal < 0
                    THEN IF ~fixed1 /\ ~fixed2
                         THEN VSub(p2.velocity, half_impulse)
                         ELSE IF fixed1 /\ ~fixed2
                         THEN VSub(p2.velocity, full_impulse)
                         ELSE p2.velocity
                    ELSE p2.velocity
        IN [ps EXCEPT ![i].position = pos1, ![i].velocity = vel1,
                      ![j].position = pos2, ![j].velocity = vel2]

\* Simulation::HandleCollisions, the particle-particle loops from pair (i, j)
RECURSIVE ParticleCollisions(_, _, _, _)
ParticleCollisions(ps, i, j, restitution) ==
    IF i > Len(ps) THEN ps
    ELSE IF j > Len(ps) THEN ParticleCollisions(ps, i + 1, i + 2, restitution)
    ELSE ParticleCollisions(ResolvePair(ps, i, j, restitution),
                            i, j + 1, restitution)

\* ResolvePlane whose impulse stops the particle instead of reflecting it
ResolvePlaneNoBounce(p, plane, restitution) ==
    LET normal == plane.normal
        dist_to_plane == Dot(VSub(p.position, plane.position), normal)
        penetration_depth == p.radius - dist_to_plane
    IN IF ~(penetration_depth > 0) THEN p
       ELSE
        LET pos == IF p.type # kFixed
                   THEN VAdd(p.position, VScale(normal, penetration_depth))
                   ELSE p.position
            velocity_along_normal == Dot(p.velocity, normal)
            impulse == VScale(normal, -velocity_along_normal)
            vel == IF velocity_along_normal < 0 /\ p.type # kFixed
                   THEN VAdd(p.velocity, impulse)
                   ELSE p.velocity
        IN [p EXCEPT !.position = pos, !.velocity = vel]

\* ResolvePlane that reflects the whole velocity instead of its component
\* along the normal
ResolvePlaneReflectsAll(p, plane, restitution) ==
    LET normal == plane.normal
        dist_to_plane == Dot(VSub(p.position, plane.position), normal)
        penetration_depth == p.radius - dist_to_plane
    IN IF ~(penetration_depth > 0) THEN p
       ELSE
        LET pos == IF p.type # kFixed
                   THEN VAdd(p.position, VScale(normal, penetration_depth))
                   ELSE p.position
            velocity_along_normal == Dot(p.velocity, normal)
            vel == IF velocity_along_normal < 0 /\ p.type # kFixed
                   THEN VScale(p.velocity, -restitution)
                   ELSE p.velocity
        IN [p EXCEPT !.position = pos, !.velocity = vel]

\* Simulation::HandleCollisions, the body of the particle-plane loop
ResolvePlane(p, plane, restitution) ==
    LET normal == plane.normal
        dist_to_plane == Dot(VSub(p.position, plane.position), normal)
        penetration_depth == p.radius - dist_to_plane
    IN IF ~(penetration_depth > 0) THEN p
       ELSE
        LET pos == IF p.type # kFixed
                   THEN VAdd(p.position, VScale(normal, penetration_depth))
                   ELSE p.position
            velocity_along_normal == Dot(p.velocity, normal)
            impulse == VScale(normal,
                              -Mul(Scale + restitution, velocity_along_normal))
            vel == IF velocity_along_normal < 0 /\ p.type # kFixed
                   THEN VAdd(p.velocity, impulse)
                   ELSE p.velocity
        IN [p EXCEPT !.position = pos, !.velocity = vel]

\* one particle against every plane, in order
RECURSIVE PlaneCollisions(_, _, _, _)
PlaneCollisions(p, pls, k, restitution) ==
    IF k > Len(pls) THEN p
    ELSE PlaneCollisions(ResolvePlane(p, pls[k], restitution),
                         pls, k + 1, restitution)

\* Simulation::HandleCollisions
HandleCollisions(ps, pls, restitution) ==
    LET after_pairs == ParticleCollisions(ps, 1, 2, restitution)
    IN [i \in DOMAIN ps |->
          PlaneCollisions(after_pairs[i], pls, 1, restitution)]

\* ClearParticleForces that stops after the first particle
ClearParticleForcesFirstOnly(ps) ==
    [i \in DOMAIN ps |->
        IF i = 1 THEN ClearForceAccumulator(ps[i]) ELSE ps[i]]

\* Simulation::ClearParticleForces
ClearParticleForces(ps) ==
    [i \in DOMAIN ps |-> ClearForceAccumulator(ps[i])]

\* ------------------------------------------------------------------ state
VARIABLES
    particles,               \* Simulation::particles_ (the particles by index)
    planes,                  \* Simulation::planes_
    springs,                 \* Simulation::springs_
    constraints,             \* Simulation::constraints_
    force_generators,        \* Simulation::force_generators_
    integrator,              \* Simulation::integrator_
    dissipative_coefficient, \* Simulation::dissipative_coefficient_
    owners,                  \* Simulation::owned_particles_, cubes_, cloths_,
                             \* particle_generators_: what each stored object
                             \* owns, as pointers into particles
    dt,                      \* the time step the driver passes to Update
    pc,                      \* position inside UpdateParticles, 0 = not in Update
    steps,                   \* number of Update calls so far
    phaseLog,                \* the phases the current Update has run, in order
    pre,                     \* the particles before the last operation
    start,                   \* the particles as constructed
    lastOp,                  \* the last operation
    lastArgs,                \* the arguments of the last direct call
    thrown,                  \* the exception the last direct call threw
    satisfied                \* the SatisfyConstraint calls of the last
                             \* UpdateConstraints, <<pass, constraint>> in order

vars == <<particles, planes, springs, constraints, force_generators,
          integrator, dissipative_coefficient, owners, dt, pc, steps,
          phaseLog, pre, start, lastOp, lastArgs, thrown, satisfied>>

\* the owning collections of a Simulation whose particles ps were all added
\* with AddParticle: owned_particles_[i] owns particles_[i]
OwnedParticles(ps) ==
    [owned_particles |-> [i \in 1..Len(ps) |-> i], cubes |-> <<>>,
     cloths |-> <<>>, particle_generators |-> <<>>]

\* ----------------------------------------------------------------- scenes
Types == {kActive, kFixed}

kDefaultGravity == Gravity(<<0, -9800, 0>>)

GroundPlane == Plane(<<0, 1000, 0>>, Zero3)

Scene(ps, pls, spr, cs, fgs, integ, e, step) ==
    [particles |-> ps, planes |-> pls, springs |-> spr, constraints |-> cs,
     force_generators |-> fgs, integrator |-> integ,
     dissipative_coefficient |-> e, dt |-> step]

\* one particle of mass 1 and radius 0.1 at rest above the ground plane
DropScenes ==
    { Scene(<<Particle(1000, 100, <<0, y, 0>>, Zero3, t)>>,
            <<GroundPlane>>, <<>>, <<>>, <<kDefaultGravity>>, integ, e, 100) :
        y \in {10000, 300}, t \in Types,
        integ \in {Euler, Verlet(10)}, e \in {0, 500, 1000} }

\* two or three particles of radius 0.5 on the x axis, moving along it
LineScenes ==
    { Scene(SubSeq(<<Particle(1000, 500, <<xs[1], 0, 0>>, <<v, 0, 0>>, t1),
                     Particle(2000, 500, <<xs[2], 0, 0>>, Zero3, t2),
                     Particle(1000, 500, <<xs[3], 0, 0>>, <<-v, 0, 0>>, t3)>>,
                   1, n),
            <<>>, <<>>, <<>>, <<Medium(100)>>, Euler, 500, step) :
        xs \in {<<0, 800, 1500>>, <<0, 0, 3000>>, <<0, 2000, 2600>>},
        n \in {2, 3},
        v \in {0, 1000}, t1 \in Types, t2 \in Types, t3 \in Types,
        step \in {100, 0} }

\* two particles of radius 0.1 joined by a spring and a rod, above the ground
PairScenes ==
    { Scene(<<Particle(1000, 100, <<0, 2000, 0>>, Zero3, t1),
              Particle(1000, 100, b, <<0, -1000, 0>>, t2)>>,
            pls,
            <<Spring(10000, 1000, 1, 2, 1000)>>,
            <<Constraint(len, 1, 2)>>,
            <<kDefaultGravity, Medium(100)>>, integ, 500, step) :
        b \in {<<1500, 2000, 0>>, <<1200, 3600, 0>>, <<0, 2000, 0>>},
        pls \in {<<>>, <<GroundPlane>>},
        len \in {1000, 0}, t1 \in Types, t2 \in Types,
        integ \in {Euler, Verlet(10)}, step \in {100, 0} }

\* one moving particle of mass zero or less, under gravity and drag
MassScenes ==
    { Scene(<<Particle(mass, 100, <<0, 10000, 0>>, <<1000, -2000, 0>>, t)>>,
            <<>>, <<>>, <<>>, <<kDefaultGravity, Medium(500)>>, integ, 500,
            100) :
        mass \in {0, -1000}, t \in Types, integ \in {Euler, Verlet(10)} }

\* three particles of radius 0.1 in the air, joined in a chain by two rods
\* that are both too long or too short
ChainScenes ==
    { Scene(<<Particle(1000, 100, <<0, 5000, 0>>, Zero3, t1),
              Particle(1000, 100, <<1500, 5000, 0>>, Zero3, kActive),
              Particle(1000, 100, <<1500, 6200, 0>>, Zero3, t3)>>,
            <<>>, <<>>,
            <<Constraint(1000, 1, 2), Constraint(len, 2, 3)>>,
            <<kDefaultGravity>>, Euler, 500, 100) :
        t1 \in Types, t3 \in Types, len \in {1000, 2000} }

\* a plane through the origin that rises along x; its normal has length 1
TiltedPlane == Plane(<<-600, 800, 0>>, Zero3)

\* one particle of radius 0.1 that moves freely, into or out of a plane it
\* penetrates or is about to reach
SlideScenes ==
    { Scene(<<Particle(1000, 100, <<0, y, 0>>, v, t)>>,
            <<plane>>, <<>>, <<>>, <<>>, Euler, 500, 100) :
        y \in {50, 150}, v \in {<<1000, -2000, 500>>, <<1000, 2000, 0>>},
        t \in Types, plane \in {GroundPlane, TiltedPlane} }

\* two moving particles of radius 0.1 that sink into the ground, joined by
\* a spring and a rod that is too long, stepped by no time or back in time
StillScenes ==
    { Scene(<<Particle(1000, 100, <<0, 50, 0>>, <<500, -1000, 0>>, t1),
              Particle(1000, 100, <<1500, 50, 0>>, <<0, -2000, 0>>, t2)>>,
            <<GroundPlane>>,
            <<Spring(10000, 1000, 1, 2, 1000)>>,
            <<Constraint(1000, 1, 2)>>,
            <<kDefaultGravity, Medium(100)>>, integ, 500, step) :
        t1 \in Types, t2 \in Types, integ \in {Euler, Verlet(10)},
        step \in {0, -100} }

Scenes ==
    DropScenes \cup LineScenes \cup PairScenes \cup MassScenes
        \cup ChainScenes \cup SlideScenes \cup StillScenes

\* ------------------------------------------------------------- Simulation
\* UpdateParticles that integrates before it accumulates the forces
UpdateParticlesIntegratesFirst ==
    <<"IntegrateParticles", "ApplyForces", "UpdateSprings",
      "UpdateConstraints", "HandleCollisions", "ClearParticleForces">>

\* UpdateParticles with the collisions resolved before the constraints
UpdateParticlesCollisionsFirst ==
    <<"ApplyForces", "UpdateSprings", "IntegrateParticles",
      "HandleCollisions", "UpdateConstraints", "ClearParticleForces">>

\* Simulation::UpdateParticles: the phases in the order they are called
UpdateParticles ==
    <<"ApplyForces", "UpdateSprings", "IntegrateParticles",
      "UpdateConstraints", "HandleCollisions", "ClearParticleForces">>

AtPhase(name) == pc > 0 /\ UpdateParticles[pc] = name

\* what every phase does besides changing the particles
PhaseDone(name) ==
    /\ pc' = IF pc = Len(UpdateParticles) THEN 0 ELSE pc + 1
    /\ phaseLog' = Append(phaseLog, name)
    /\ pre' = particles
    /\ lastOp' = name
    /\ UNCHANGED <<planes, springs, constraints, force_generators,
                   integrator, dissipative_coefficient, owners, dt, steps,
                   start, lastArgs, thrown>>

Init ==
    \E sc \in Scenes :
        /\ particles = sc.particles
        /\ planes = sc.planes
        /\ springs = sc.springs
        /\ constraints = sc.constraints
        /\ force_generators = sc.force_generators
        /\ integrator = sc.integrator
        /\ dissipative_coefficient = sc.dissipative_coefficient
        /\ dt = sc.dt
        /\ pc = 0
        /\ steps = 0
        /\ phaseLog = <<>>
        /\ pre = sc.particles
        /\ start = sc.particles
        /\ lastOp = "Simulation"
        /\ lastArgs = <<>>
        /\ thrown = "none"
        /\ owners = OwnedParticles(sc.particles)
        /\ satisfied = <<>>

\* Simulation::Update is called
Update ==
    /\ pc = 0
    /\ steps < MaxSteps
    /\ pc' = 1
    /\ steps' = steps + 1
    /\ phaseLog' = <<>>
    /\ pre' = particles
    /\ lastOp' = "Update"
    /\ satisfied' = <<>>
    /\ UNCHANGED <<particles, planes, springs, constraints, force_generators,
                   integrator, dissipative_coefficient, owners, dt, start,
                   lastArgs, thrown>>

RunApplyForces ==
    /\ AtPhase("ApplyForces")
    /\ particles' = ApplyForces(particles, force_generators)
    /\ PhaseDone("ApplyForces")
    /\ UNCHANGED satisfied

RunUpdateSprings ==
    /\ AtPhase("UpdateSprings")
    /\ particles' = UpdateSprings(particles, springs, 1)
    /\ PhaseDone("UpdateSprings")
    /\ UNCHANGED satisfied

RunIntegrateParticles ==
    /\ AtPhase("IntegrateParticles")
    /\ particles' = IntegrateParticles(particles, integrator, dt)
    /\ PhaseDone("IntegrateParticles")
    /\ UNCHANGED satisfied

RunUpdateConstraints ==
    /\ AtPhase("UpdateConstraints")
    /\ LET run == UpdateConstraints(Relaxation(particles), constraints, 0)
       IN /\ particles' = run.particles
          /\ satisfied' = run.calls
    /\ PhaseDone("UpdateConstraints")

RunHandleCollisions ==
    /\ AtPhase("HandleCollisions")
    /\ particles' = HandleCollisions(particles, planes, dissipative_coefficient)
    /\ PhaseDone("HandleCollisions")
    /\ UNCHANGED satisfied

RunClearParticleForces ==
    /\ AtPhase("ClearParticleForces")
    /\ particles' = ClearParticleForces(particles)
    /\ PhaseDone("ClearParticleForces")
    /\ UNCHANGED satisfied

Next ==
    \/ Update
    \/ RunApplyForces
    \/ RunUpdateSprings
    \/ RunIntegrateParticles
    \/ RunUpdateConstraints
    \/ RunHandleCollisions
    \/ RunClearParticleForces

Spec == Init /\ [][Next]_vars

\* ------------------------------------------- the classes used on their own
\* The unit tests construct particles, a Spring, a Constraint or an
\* integrator directly and call their methods; the specifications below do
\* the same.  steps counts the calls.

\* a direct call of name with the arguments args that throws exc ("none"
\* when it returns normally)
CallOf(name, args, exc) ==
    /\ steps < MaxCalls
    /\ steps' = steps + 1
    /\ pre' = particles
    /\ lastOp' = name
    /\ lastArgs' = args
    /\ thrown' = exc
    /\ UNCHANGED <<dt, pc, phaseLog, start, satisfied>>

\* what a direct call does besides changing the particles
Called(name) ==
    /\ CallOf(name, <<>>, "none")
    /\ UNCHANGED <<planes, springs, constraints, force_generators, integrator,
                   dissipative_coefficient, owners>>

\* the objects as constructed; args are the constructor arguments of interest
Constructed(ps, spr, cs, fgs, integ, args) ==
    /\ particles = ps
    /\ planes = <<>>
    /\ springs = spr
    /\ constraints = cs
    /\ force_generators = fgs
    /\ integrator = integ
    /\ lastArgs = args
    /\ thrown = "none"
    /\ dissipative_coefficient = 500
    /\ owners = OwnedParticles(ps)
    /\ satisfied = <<>>
    /\ dt = 0
    /\ pc = 0
    /\ steps = 0
    /\ phaseLog = <<>>
    /\ pre = ps
    /\ start = ps
    /\ lastOp = "constructed"

Standalone(ps, spr, cs, integ) == Constructed(ps, spr, cs, <<>>, integ, <<>>)

\* where the second endpoint is put, the first one being at the origin
EndpointPositions ==
    { <<1500, 0, 0>>, <<-1500, 0, 0>>, <<700, 0, 0>>, <<1000, 0, 0>>,
      <<0, 0, 0>>, <<600, 800, 0>>, <<900, 0, 1200>>, <<0, -2000, 0>> }

\* ---- Spring
InitSpring ==
    \E b \in EndpointPositions, v \in {0, 1000}, t1 \in Types, t2 \in Types,
       k \in {100000, 10000}, d \in {0, 5000}, rest \in {1000, 0} :
        Standalone(<<Particle(1000, 100, Zero3, <<v, 0, 0>>, t1),
                     Particle(1000, 100, b, <<-v, 0, 0>>, t2)>>,
                   <<Spring(k, d, 1, 2, rest)>>, <<>>, Euler)

\* spring.ApplyForce()
CallSpringApplyForce ==
    /\ particles' = SpringApplyForce(particles, springs[1])
    /\ Called("SpringApplyForce")

\* p.AddForce(force)
CallAddForce ==
    \E i \in DOMAIN particles, f \in {<<10000, 20000, 30000>>} :
        /\ particles' = [particles EXCEPT ![i] = AddForce(particles[i], f)]
        /\ Called("AddForce")

NextSpring == CallSpringApplyForce \/ CallAddForce

SpecSpring == InitSpring /\ [][NextSpring]_vars

\* ---- Spring::Spring
InitSpringCtor ==
    \E b \in EndpointPositions :
        Standalone(<<Particle(1000, 100, Zero3, Zero3, kActive),
                     Particle(1000, 100, b, Zero3, kActive)>>,
                   <<>>, <<>>, Euler)

\* Spring(stiffness, damping, a, b) or Spring(stiffness, damping, a, b,
\* rest_length); springs holds the Spring the expression made
CallConstructSpring ==
    \E a \in {kNull, 1, 2}, b \in {kNull, 1, 2},
       stiffness \in {-10000, 0, 100000}, damping \in {-1000, 0, 5000},
       explicit \in BOOLEAN, rest_length \in {-1000, 0, 1000} :
        LET r == ConstructSpring(particles, stiffness, damping, a, b,
                                 explicit, rest_length)
        IN /\ explicit \/ rest_length = 0
           /\ springs' = r.made
           /\ CallOf("Spring",
                     <<stiffness, damping, a, b, explicit, rest_length>>,
                     r.thrown)
           /\ UNCHANGED <<particles, planes, constraints, force_generators,
                          integrator, dissipative_coefficient,
                          owners>>

NextSpringCtor == CallConstructSpring

SpecSpringCtor == InitSpringCtor /\ [][NextSpringCtor]_vars

\* ---- force generators
\* the orders in which the three generators, or some of them, are applied
GeneratorOrders ==
    { <<1>>, <<2>>, <<3>>, <<1, 2>>, <<2, 1>>, <<1, 3>>, <<3, 1>>, <<2, 3>>,
      <<3, 2>>, <<1, 2, 3>>, <<1, 3, 2>>, <<2, 1, 3>>, <<2, 3, 1>>,
      <<3, 1, 2>>, <<3, 2, 1>> }

\* one particle that may have had a force added, a default gravity, a Medium
\* and a second gravity
InitGenerators ==
    \E mass \in {1000, 2500, 0, -1000}, v \in {Zero3, <<1000, -2000, 500>>},
       t \in Types, f \in {Zero3, <<10000, 0, 5000>>},
       k \in {0, 100, 500} :
        Constructed(<<AddForce(Particle(mass, 100, <<0, 10000, 0>>, v, t), f)>>,
                    <<>>, <<>>,
                    <<kDefaultGravity, Medium(k), Gravity(<<1000, 0, -2000>>)>>,
                    Euler, <<>>)

\* generator.ApplyForce(particle) for the generators of order, one after
\* the other
CallApplyForce ==
    \E order \in GeneratorOrders :
        /\ particles' =
              [particles EXCEPT
                 ![1] = ApplyGenerators(
                            @, [k \in 1..Len(order) |->
                                   force_generators[order[k]]], 1)]
        /\ CallOf("ApplyForce", order, "none")
        /\ UNCHANGED <<planes, springs, constraints, force_generators,
                       integrator, dissipative_coefficient,
                       owners>>

NextGenerators == CallApplyForce

SpecGenerators == InitGenerators /\ [][NextGenerators]_vars

\* ---- Particle::AddForce and its callers
\* two particles joined by a stretched, damped spring, and the generators;
\* the simulation is stepped, and between two steps forces are added by
\* hand, as the tests do
InitForces ==
    \E t1 \in Types, t2 \in Types :
        LET ps == <<Particle(1000, 100, Zero3, <<1000, -2000, 500>>, t1),
                    Particle(1000, 100, <<1500, 0, 0>>, Zero3, t2)>>
        IN  /\ particles = ps
            /\ planes = <<>>
            /\ springs = <<Spring(10000, 1000, 1, 2, 1000)>>
            /\ constraints = <<>>
            /\ force_generators =
                   <<kDefaultGravity, Medium(500), Gravity(<<1000, 0, -2000>>)>>
            /\ integrator = Euler
            /\ dissipative_coefficient = 500
            /\ dt = 100
            /\ pc = 0
            /\ steps = 0
            /\ phaseLog = <<>>
            /\ pre = ps
            /\ start = ps
            /\ lastOp = "Simulation"
            /\ lastArgs = <<>>
            /\ thrown = "none"
            /\ owners = OwnedParticles(ps)
            /\ satisfied = <<>>

\* a step of the simulation; the calls are counted with those made by hand
StepForces == steps < MaxCalls /\ Update

\* a call made by hand, between two steps
BetweenSteps == pc = 0 /\ (CallApplyForce \/ CallSpringApplyForce \/ CallAddForce)

NextForces ==
    \/ BetweenSteps
    \/ StepForces
    \/ RunApplyForces
    \/ RunUpdateSprings
    \/ RunIntegrateParticles
    \/ RunUpdateConstraints
    \/ RunHandleCollisions
    \/ RunClearParticleForces

SpecForces == InitForces /\ [][NextForces]_vars

\* ---- Medium
\* the drag coefficients given to Medium's constructor and setter
DragCoefficients == {-1000, -1, 0, 100, 500}

\* one particle and no Medium yet
InitMedium ==
    \E v \in {<<1000, -2000, 500>>, <<0, 3000, 0>>}, t \in Types :
        Standalone(<<Particle(1000, 100, Zero3, v, t)>>, <<>>, <<>>, Euler)

\* Medium(drag_coefficient); force_generators holds the Medium the
\* expression made
CallConstructMedium ==
    \E drag_coefficient \in DragCoefficients :
        LET r == ConstructMedium(drag_coefficient)
        IN /\ force_generators' = r.made
           /\ CallOf("Medium", <<drag_coefficient>>, r.thrown)
           /\ UNCHANGED <<particles, planes, springs, constraints,
                          integrator, dissipative_coefficient,
                          owners>>

\* medium.set_drag_coefficient(drag_coefficient)
CallSetDragCoefficient ==
    \E drag_coefficient \in DragCoefficients :
        LET r == SetDragCoefficient(force_generators[1], drag_coefficient)
        IN /\ Len(force_generators) = 1
           /\ force_generators' = <<r.medium>>
           /\ CallOf("set_drag_coefficient", <<drag_coefficient>>, r.thrown)
           /\ UNCHANGED <<particles, planes, springs, constraints,
                          integrator, dissipative_coefficient,
                          owners>>

\* medium.ApplyForce(particle)
CallMediumApplyForce ==
    /\ Len(force_generators) = 1
    /\ particles' = [particles EXCEPT
                       ![1] = ApplyForce(force_generators[1], @)]
    /\ CallOf("ApplyForce", <<1>>, "none")
    /\ UNCHANGED <<planes, springs, constraints, force_generators,
                   integrator, dissipative_coefficient,
                   owners>>

NextMedium ==
    CallConstructMedium \/ CallSetDragCoefficient \/ CallMediumApplyForce

SpecMedium == InitMedium /\ [][NextMedium]_vars

\* ---- Simulation::AddSpring, Simulation::AddConstraint
\* the (particle_a, particle_b) arguments: nullptr is kNull
PointerPairs == {<<kNull, 2>>, <<1, kNull>>, <<1, 1>>, <<1, 2>>, <<2, 1>>}

\* a Simulation with two particles and nothing else
InitRegistration ==
    \E b \in {<<1500, 0, 0>>, Zero3} :
        Constructed(<<Particle(1000, 100, Zero3, Zero3, kActive),
                      Particle(1000, 100, b, Zero3, kActive)>>,
                    <<>>, <<>>, <<>>, Euler, <<>>)

\* simulation.AddSpring(stiffness, damping, particle_a, particle_b)
SpringAdded(stiffness, damping, a, b) ==
    LET r == AddSpring(particles, springs, stiffness, damping, a, b)
    IN /\ springs' = r.springs
       /\ CallOf("AddSpring", <<stiffness, damping, a, b>>, r.thrown)
       /\ UNCHANGED <<particles, planes, constraints, force_generators,
                      integrator, dissipative_coefficient, owners>>

CallAddSpring ==
    \E pp \in PointerPairs, stiffness \in {0, 100000},
       damping \in {-1000, 5000} :
        SpringAdded(stiffness, damping, pp[1], pp[2])

\* simulation.AddConstraint(length, particle_a, particle_b)
ConstraintAdded(length, a, b) ==
    LET r == AddConstraint(constraints, length, a, b)
    IN /\ constraints' = r.constraints
       /\ CallOf("AddConstraint", <<length, a, b>>, r.thrown)
       /\ UNCHANGED <<particles, planes, springs, force_generators,
                      integrator, dissipative_coefficient, owners>>

CallAddConstraint ==
    \E pp \in PointerPairs, length \in {-1000, 1000} :
        ConstraintAdded(length, pp[1], pp[2])

NextRegistration == CallAddSpring \/ CallAddConstraint

SpecRegistration == InitRegistration /\ [][NextRegistration]_vars

\* ---- Simulation: the objects added to it
\* a Simulation with two particles added with AddParticle
InitOwners ==
    Constructed(<<Particle(1000, 100, Zero3, Zero3, kActive),
                  Particle(1000, 100, <<1500, 0, 0>>, Zero3, kActive)>>,
                <<>>, <<>>, <<>>, Euler, <<>>)

\* what a call that adds an object leaves alone
Registered(name, args, exc) ==
    /\ steps < MaxRegistrations
    /\ CallOf(name, args, exc)
    /\ UNCHANGED <<integrator, dissipative_coefficient>>

DissipativeArguments == {-500, 0, 1000, 1500}

\* simulation.set_dissipative_coefficient(dissipative)
CallSetDissipativeCoefficient ==
    \E dissipative \in DissipativeArguments :
        /\ steps < MaxRegistrations
        /\ dissipative_coefficient' = set_dissipative_coefficient(dissipative)
        /\ CallOf("set_dissipative_coefficient", <<dissipative>>, "none")
        /\ UNCHANGED <<particles, planes, springs, constraints,
                       force_generators, integrator, owners>>

\* simulation.AddPlane(plane)
CallAddPlane ==
    \E plane \in {<<>>, <<GroundPlane>>} :
        /\ planes' = AddPlane(planes, plane)
        /\ Registered("AddPlane", <<plane>>, "none")
        /\ UNCHANGED <<particles, springs, constraints, force_generators,
                       owners>>

\* simulation.AddParticle(particle)
CallAddParticle ==
    \E particle \in {<<>>, <<Particle(1000, 100, <<0, 5000, 0>>, Zero3,
                                      kFixed)>>} :
        LET r == AddParticle(particles, owners, particle)
        IN /\ particles' = r.particles
           /\ owners' = r.owners
           /\ Registered("AddParticle", <<particle>>, "none")
           /\ UNCHANGED <<planes, springs, constraints, force_generators>>

\* simulation.AddForceGenerator(force_generator)
CallAddForceGenerator ==
    \E force_generator \in {<<>>, <<kDefaultGravity>>} :
        /\ force_generators' = AddForceGenerator(force_generators,
                                                 force_generator)
        /\ Registered("AddForceGenerator", <<force_generator>>, "none")
        /\ UNCHANGED <<particles, planes, springs, constraints, owners>>

\* a generator of three particles, the second of which its user has reset
ResetGenerator ==
    [particles |->
       << <<Particle(1000, 100, <<-1000, 8000, 500>>, Zero3, kActive)>>,
          <<>>,
          <<Particle(1000, 100, <<2000, 9000, -500>>, Zero3, kActive)>> >>]

\* simulation.AddParticleGenerator(particle_generator)
CallAddParticleGenerator ==
    \E particle_generator \in {<<>>, <<ResetGenerator>>} :
        LET r == AddParticleGenerator(particles, owners, particle_generator)
        IN /\ particles' = r.particles
           /\ owners' = r.owners
           /\ Registered("AddParticleGenerator", <<particle_generator>>,
                         "none")
           /\ UNCHANGED <<planes, springs, constraints, force_generators>>

\* the cube the caller constructs, and no cube
CubeArguments ==
    {<<>>, <<ConstructCube(<<0, 3000, 0>>, 1000, 1000, 100, kActive)>>}

\* simulation.AddCube(cube)
CallAddCube ==
    \E cube \in CubeArguments :
        LET r == AddCube(particles, owners, cube)
        IN /\ particles' = r.particles
           /\ owners' = r.owners
           /\ Registered("AddCube", <<cube>>, "none")
           /\ UNCHANGED <<planes, springs, constraints, force_generators>>

\* the (n_u, n_v) a Cloth is constructed with
ClothDimensions == {<<1, 2>>, <<2, 0>>, <<2, 2>>, <<3, 2>>}

\* the cloths the caller constructs, and no cloth
ClothArguments ==
    {<<>>} \cup
    { <<ConstructCloth(6000, 100, n[1], n[2], <<0, 6000, 0>>,
                       <<2000, 6000, 0>>, <<0, 6000, 1000>>, kActive)>> :
        n \in ClothDimensions }

\* simulation.AddCloth(cloth)
CallAddCloth ==
    \E cloth \in ClothArguments :
        LET r == AddCloth(particles, springs, constraints, owners, cloth)
        IN /\ particles' = r.particles
           /\ springs' = r.springs
           /\ constraints' = r.constraints
           /\ owners' = r.owners
           /\ Registered("AddCloth", <<cloth>>, r.thrown)
           /\ UNCHANGED <<planes, force_generators>>

\* the (stiffness, damping, particle_a, particle_b) and the (length,
\* particle_a, particle_b) the helpers are called with
SpringArguments ==
    {<<100000, 1000, kNull, 2>>, <<100000, 1000, 1, 1>>,
     <<0, 1000, 1, 2>>, <<100000, 1000, 1, 2>>}

ConstraintArguments ==
    {<<1000, 1, kNull>>, <<1000, 2, 2>>, <<-1000, 1, 2>>, <<1000, 1, 2>>}

\* AddSpring and AddConstraint, the helpers of AddCloth, called on two
\* particles of the simulation
CallHelperAddSpring ==
    \E a \in SpringArguments :
        steps < MaxRegistrations /\ SpringAdded(a[1], a[2], a[3], a[4])

CallHelperAddConstraint ==
    \E a \in ConstraintArguments :
        steps < MaxRegistrations /\ ConstraintAdded(a[1], a[2], a[3])

NextOwners ==
    \/ CallSetDissipativeCoefficient
    \/ CallAddPlane
    \/ CallAddParticle
    \/ CallAddForceGenerator
    \/ CallAddParticleGenerator
    \/ CallAddCube
    \/ CallAddCloth
    \/ CallHelperAddSpring
    \/ CallHelperAddConstraint

SpecOwners == InitOwners /\ [][NextOwners]_vars

\* ---- Constraint
\* (a third particle stands by; the particles may have had forces added)
InitConstraint ==
    \E a \in {Zero3, <<1000, 1000, 0>>},
       b \in EndpointPositions \cup {<<1000, 1000, 1000>>},
       t1 \in Types, t2 \in Types, len \in {0, 1000, 2500},
       f \in {Zero3, <<10000, 20000, 30000>>} :
        Standalone(<<AddForce(Particle(1000, 100, a, <<1000, 0, 0>>, t1), f),
                     AddForce(Particle(2000, 100, b, <<0, -1000, 0>>, t2), f),
                     AddForce(Particle(3000, 100, <<500, 500, 0>>,
                                       <<0, 0, 1000>>, kActive), f)>>,
                   <<>>, <<Constraint(len, 1, 2)>>, Euler)

\* constraint.SatisfyConstraint()
CallSatisfyConstraint ==
    /\ particles' = SatisfyConstraint(particles, constraints[1])
    /\ Called("SatisfyConstraint")

NextConstraint == CallSatisfyConstraint

SpecConstraint == InitConstraint /\ [][NextConstraint]_vars

\* ---- Integrator
\* the drags given to VerletIntegrator's constructor and to set_drag
DragArguments == {-500, 0, 10, 300, 1500}

\* an EulerIntegrator or a VerletIntegrator(drag), and one particle that may
\* have had a force added
InitIntegrator ==
    \E x \in {<<0, 10000, 0>>, <<1000, 2000, 3000>>},
       v \in {Zero3, <<1000, 0, 0>>, <<0, -2000, 500>>},
       t \in Types, f \in {Zero3, <<10000, 20000, 30000>>} :
        \/ Standalone(<<AddForce(Particle(1000, 100, x, v, t), f)>>,
                      <<>>, <<>>, Euler)
        \/ \E drag \in DragArguments \ {300} :
              Constructed(<<AddForce(Particle(1000, 100, x, v, t), f)>>,
                          <<>>, <<>>, <<>>, Verlet(drag), <<drag>>)

\* integrator.Integrate(acceleration, particle, dt)
CallIntegrate ==
    \E acceleration \in {Zero3, <<2000, -9800, 0>>},
       step \in {100, kDtEpsilon, 0, -100} :
        /\ particles' = [particles EXCEPT
                           ![1] = Integrate(integrator, acceleration,
                                            particles[1], step)]
        /\ CallOf("Integrate", <<acceleration, step>>, "none")
        /\ UNCHANGED <<planes, springs, constraints, force_generators,
                       integrator, dissipative_coefficient,
                       owners>>

\* integrator.set_drag(drag)
CallSetDrag ==
    \E drag \in DragArguments \ {0, 10} :
        /\ integrator.kind = "verlet"
        /\ integrator' = SetDrag(integrator, drag)
        /\ CallOf("set_drag", <<drag>>, "none")
        /\ UNCHANGED <<particles, planes, springs, constraints,
                       force_generators, dissipative_coefficient,
                       owners>>

NextIntegrator == CallIntegrate \/ CallSetDrag

SpecIntegrator == InitIntegrator /\ [][NextIntegrator]_vars

\* ----------------------------------------------------------- verification
\* rounding tolerance, in units of 1/Scale
Tol == 3

IsPrefix(s, t) == Len(s) <= Len(t) /\ \A k \in 1..Len(s) : s[k] = t[k]

Returned == pc = 0 /\ steps > 0

SixPhases ==
    <<"ApplyForces", "UpdateSprings", "IntegrateParticles",
      "UpdateConstraints", "HandleCollisions", "ClearParticleForces">>

\* C1: every Update runs ApplyForces, UpdateSprings, IntegrateParticles,
\* UpdateConstraints, HandleCollisions and ClearParticleForces exactly once
\* each and in this order: what an Update has run so far is always an initial
\* part of that list, it has not run all six while it is still inside, and
\* when it returns it has run exactly the six.
C1_SixPhasesInOrder ==
    /\ IsPrefix(phaseLog, SixPhases)
    /\ pc > 0 => Len(phaseLog) < Len(SixPhases)
    /\ Returned => phaseLog = SixPhases

C1_Witness ==
    /\ Returned
    /\ steps = 2
    /\ phaseLog = SixPhases
    /\ lastOp = "ClearParticleForces"

\* C6: when Update returns, the force accumulator of every particle, Active
\* or Fixed, is the zero vector.
C6_AccumulatorsZeroOnReturn ==
    Returned =>
        \A i \in DOMAIN particles : particles[i].force_accumulator = Zero3

C6_Witness ==
    /\ Returned
    /\ \E i \in DOMAIN particles : pre[i].force_accumulator # Zero3
    /\ \E i \in DOMAIN particles : particles[i].type = kFixed
    /\ \A i \in DOMAIN particles : particles[i].force_accumulator = Zero3

\* v . n for a unit normal n
Along(v, n) == RoundDiv(v[1] * n[1] + v[2] * n[2] + v[3] * n[3], Scale)

Distance(p, q) == Sqrt(SqrLength(VSub(p.position, q.position)))

\* every pair of particles is at least the sum of its radii apart
Separated(ps) ==
    \A i, j \in DOMAIN ps :
        i < j => Distance(ps[i], ps[j]) >= ps[i].radius + ps[j].radius - Tol

\* C3 as stated: when HandleCollisions returns, every pair of particles is at
\* least radius_i + radius_j minus a tolerance apart.
C3_AllPairsSeparated == lastOp = "HandleCollisions" => Separated(particles)

\* C3 (amended): with exactly two particles, not both Fixed, whose centres do
\* not coincide when HandleCollisions starts, and no plane, the two are at
\* least radius_1 + radius_2 minus a tolerance apart when it returns.
C3_TwoParticlesSeparated ==
    ( /\ lastOp = "HandleCollisions"
      /\ Len(particles) = 2
      /\ planes = <<>>
      /\ ~(particles[1].type = kFixed /\ particles[2].type = kFixed)
      /\ pre[1].position # pre[2].position )
    => Separated(particles)

C3_Witness ==
    /\ lastOp = "HandleCollisions"
    /\ Len(particles) = 2
    /\ planes = <<>>
    /\ particles[1].type = kFixed
    /\ particles[2].type = kActive
    /\ pre[1].position # pre[2].position
    /\ ~Separated(pre)
    /\ Separated(particles)

\* the scenario of C5: one Active particle, one plane, gravity, Euler
DropScenario ==
    /\ Len(particles) = 1
    /\ Len(planes) = 1
    /\ particles[1].type = kActive
    /\ integrator.kind = "euler"
    /\ force_generators = <<kDefaultGravity>>

Penetrates(p, plane) ==
    Along(VSub(p.position, plane.position), plane.normal) < p.radius

\* C5: in the drop scenario, at the end of every Update the particle is at
\* least its radius (minus a tolerance) above the plane, and in the
\* HandleCollisions that resolves a penetration the velocity along the normal
\* was a negative v and becomes -(dissipative coefficient) * v.
C5_RestsOnPlaneAndBounces ==
    DropScenario =>
        /\ Returned =>
              Along(VSub(particles[1].position, planes[1].position),
                    planes[1].normal) >= particles[1].radius - Tol
        /\ (lastOp = "HandleCollisions" /\ Penetrates(pre[1], planes[1])) =>
              LET v == Along(pre[1].velocity, planes[1].normal)
                  w == Along(particles[1].velocity, planes[1].normal)
              IN /\ v < 0
                 /\ Abs(w + RoundDiv(dissipative_coefficient * v, Scale)) <= Tol

C5_Witness ==
    /\ DropScenario
    /\ start[1].position = <<0, 10000, 0>>
    /\ dissipative_coefficient = 500
    /\ dt = 100
    /\ lastOp = "HandleCollisions"
    /\ Penetrates(pre[1], planes[1])
    /\ pre[1].velocity[2] < 0
    /\ particles[1].velocity[2] > 0
    /\ particles[1].position[2] = particles[1].radius

\* ---- Spring::ApplyForce
\* what the last operation added to the accumulator of particle i
Added(i) == VSub(particles[i].force_accumulator, pre[i].force_accumulator)

\* the last operation was ApplyForce of the spring, on non-coincident endpoints
SpringApplied ==
    /\ lastOp = "SpringApplyForce"
    /\ pre[springs[1].particle_a].position # pre[springs[1].particle_b].position

BothActive(a, b) == particles[a].type = kActive /\ particles[b].type = kActive

\* C4 as stated: for every non-coincident configuration one ApplyForce
\* changes particle_a's accumulator by F and particle_b's by exactly -F.
C4_EqualAndOpposite ==
    SpringApplied =>
        Added(springs[1].particle_a) = VNeg(Added(springs[1].particle_b))

\* C4 (amended): for a spring whose endpoints are both Active and every
\* non-coincident configuration, one ApplyForce changes particle_a's
\* accumulator by F and particle_b's by exactly -F.
C4_EqualAndOppositeActive ==
    (SpringApplied /\ BothActive(springs[1].particle_a, springs[1].particle_b))
    => Added(springs[1].particle_a) = VNeg(Added(springs[1].particle_b))

C4_Witness ==
    /\ SpringApplied
    /\ BothActive(springs[1].particle_a, springs[1].particle_b)
    /\ springs[1].damping > 0
    /\ pre[1].velocity # pre[2].velocity
    /\ pre[1].force_accumulator # Zero3
    /\ Added(springs[1].particle_a) # Zero3
    /\ Added(springs[1].particle_a) = VNeg(Added(springs[1].particle_b))

\* endpoints on a line parallel to the x axis, no damping, no relative velocity
OnXAxisUndamped ==
    /\ SpringApplied
    /\ pre[1].position[2] = pre[2].position[2]
    /\ pre[1].position[3] = pre[2].position[3]
    /\ springs[1].damping = 0
    /\ pre[1].velocity = pre[2].velocity

\* the scenario of C7: a at (0,0,0), b at (1.5,0,0), k = 100, rest length 1
StretchedPair ==
    /\ OnXAxisUndamped
    /\ springs[1].particle_a = 1
    /\ springs[1].particle_b = 2
    /\ pre[1].position = <<0, 0, 0>>
    /\ pre[2].position = <<1500, 0, 0>>
    /\ springs[1].stiffness = 100000
    /\ springs[1].rest_length = 1000

Cross(a, b) ==
    <<a[2] * b[3] - a[3] * b[2], a[3] * b[1] - a[1] * b[3],
      a[1] * b[2] - a[2] * b[1]>>

\* the force F added to endpoint e is the restoring force of the spring:
\* parallel to the line to the other endpoint o, of magnitude k * |L - L0|
\* (measured along that line), toward o when stretched, away from o when
\* compressed, zero at the rest length
Restoring(e, o) ==
    LET F == Added(e)
        toward == VSub(pre[o].position, pre[e].position)
        L == Sqrt(SqrLength(toward))
        x == L - springs[1].rest_length
        c == Cross(F, toward)
        along == F[1] * toward[1] + F[2] * toward[2] + F[3] * toward[3]
    IN /\ \A k \in 1..3 : Abs(c[k]) <= Tol * L
       /\ Abs(RoundDiv(Abs(along), L)
              - RoundDiv(springs[1].stiffness * Abs(x), Scale)) <= Tol
       /\ x > 0 => along > 0
       /\ x < 0 => along < 0
       /\ x = 0 => F = Zero3

C2_FixedNeverMoves ==
    \A i \in DOMAIN particles :
        particles[i].type = kFixed =>
            /\ particles[i].position = start[i].position
            /\ particles[i].velocity = start[i].velocity

\* ---- Constraint::SatisfyConstraint
\* | current_length - length_ | of the constraint on the particle list ps
ConstraintError(ps) ==
    Abs(Distance(ps[constraints[1].particle_a], ps[constraints[1].particle_b])
        - constraints[1].length)

\* the last operation was SatisfyConstraint, on non-coincident endpoints
ConstraintSatisfied ==
    /\ lastOp = "SatisfyConstraint"
    /\ pre[constraints[1].particle_a].position
         # pre[constraints[1].particle_b].position

\* particle e moved by share/2 of the error along the axis, toward the other
\* endpoint o when the constraint was stretched, away from it when compressed
MovedAlongAxis(e, o, share) ==
    LET axis == VSub(pre[o].position, pre[e].position)
        L == Sqrt(SqrLength(axis))
        error == L - constraints[1].length
        moved == VSub(particles[e].position, pre[e].position)
    IN \A k \in 1..3 :
          Abs(moved[k] - RoundDiv(axis[k] * error * share, 2 * L)) <= Tol

Unmoved(e) == particles[e].position = pre[e].position

\* C9: SatisfyConstraint on non-coincident endpoints moves each of two Active
\* endpoints by half the error along the axis, toward reducing it; with
\* exactly one Fixed endpoint the movable one moves by the full error and the
\* Fixed one does not move; with both Fixed neither moves. In the first two
\* cases the separation right after the call is the target length.
C9_WeightedCorrection ==
    ConstraintSatisfied =>
        LET a == constraints[1].particle_a
            b == constraints[1].particle_b
            fixed_a == particles[a].type = kFixed
            fixed_b == particles[b].type = kFixed
        IN /\ (~fixed_a /\ ~fixed_b) =>
                 MovedAlongAxis(a, b, 1) /\ MovedAlongAxis(b, a, 1)
           /\ (fixed_a /\ ~fixed_b) => Unmoved(a) /\ MovedAlongAxis(b, a, 2)
           /\ (~fixed_a /\ fixed_b) => MovedAlongAxis(a, b, 2) /\ Unmoved(b)
           /\ (fixed_a /\ fixed_b) => Unmoved(a) /\ Unmoved(b)
           /\ ~(fixed_a /\ fixed_b) => ConstraintError(particles) <= Tol

C9_Witness ==
    /\ ConstraintSatisfied
    /\ steps = 1
    /\ BothActive(1, 2)
    /\ constraints[1].length = 2500
    /\ pre[1].position = <<0, 0, 0>>
    /\ pre[2].position = <<600, 800, 0>>
    /\ particles[1].position = <<-450, -600, 0>>
    /\ particles[2].position = <<1050, 1400, 0>>

\* the call did not increase the error, up to rounding
NotIncreased ==
    \/ ConstraintError(particles) <= ConstraintError(pre)
    \/ ConstraintError(particles) <= Tol

\* C10 as stated: for two movable particles joined by one Constraint, a
\* SatisfyConstraint call never increases | current_length - L0 | (beyond
\* rounding), and after repeated calls it is within tolerance of zero.
C10_ErrorShrinksToZero ==
    (lastOp = "SatisfyConstraint" /\ BothActive(1, 2)) =>
        /\ NotIncreased
        /\ steps >= 2 => ConstraintError(particles) <= Tol

\* C10 (amended): for two movable particles that do not start at the same
\* point, joined by one Constraint, a SatisfyConstraint call never increases
\* | current_length - L0 | (beyond rounding), and after repeated calls it is
\* within tolerance of zero.
C10_ErrorShrinksUnlessCoincident ==
    (/\ lastOp = "SatisfyConstraint"
     /\ BothActive(1, 2)
     /\ start[1].position # start[2].position) =>
        /\ NotIncreased
        /\ steps >= 2 => ConstraintError(particles) <= Tol

C10_Witness ==
    /\ lastOp = "SatisfyConstraint"
    /\ BothActive(1, 2)
    /\ steps >= 2
    /\ start[1].position # start[2].position
    /\ ConstraintError(start) > 1000
    /\ ConstraintError(particles) <= Tol

\* the fields of a particle other than its position
Rest(p) == [p EXCEPT !.position = Zero3]

\* C11: SatisfyConstraint changes only the positions of its two endpoints:
\* their velocity, previous_position, force accumulator, mass and type, every
\* other particle and the constraint's target length stay as they were.
C11_OnlyEndpointPositionsChange ==
    [][lastOp' = "SatisfyConstraint" =>
          /\ \A i \in DOMAIN particles : Rest(particles'[i]) = Rest(particles[i])
          /\ \A i \in DOMAIN particles :
                i \notin {constraints[1].particle_a, constraints[1].particle_b}
                => particles'[i] = particles[i]
          /\ DOMAIN particles' = DOMAIN particles
          /\ constraints' = constraints]_vars

C11_Witness ==
    /\ lastOp = "SatisfyConstraint"
    /\ particles[1].position # pre[1].position
    /\ particles[2].position # pre[2].position
    /\ particles[1].previous_position # particles[1].position
    /\ particles[1].force_accumulator # Zero3
    /\ particles[1].velocity # Zero3
    /\ Rest(particles[1]) = Rest(pre[1])
    /\ Rest(particles[2]) = Rest(pre[2])
    /\ particles[3] = pre[3]

\* ---- Integrator::Integrate
\* the last operation was Integrate(acceleration, particle, dt)
Integrated == lastOp = "Integrate"

IntegratedAcceleration == lastArgs[1]

IntegratedDt == lastArgs[2]

\* a + b * t, each product rounded
Advance(a, b, t) == [k \in 1..3 |-> a[k] + RoundDiv(b[k] * t, Scale)]

\* C12: EulerIntegrator::Integrate with dt > 0 sets position to
\* old_position + old_velocity * dt and velocity to
\* old_velocity + acceleration * dt.
C12_ExplicitEulerStep ==
    (Integrated /\ integrator.kind = "euler" /\ IntegratedDt > 0) =>
        /\ particles[1].position
             = Advance(pre[1].position, pre[1].velocity, IntegratedDt)
        /\ particles[1].velocity
             = Advance(pre[1].velocity, IntegratedAcceleration, IntegratedDt)

C12_Witness ==
    /\ Integrated
    /\ integrator.kind = "euler"
    /\ IntegratedDt = 100
    /\ IntegratedAcceleration = <<2000, -9800, 0>>
    /\ pre[1].position = <<0, 9800, 50>>
    /\ pre[1].velocity = <<200, -2980, 500>>
    /\ particles[1].position = <<20, 9502, 100>>
    /\ particles[1].velocity = <<400, -3960, 500>>

\* C13: VerletIntegrator::Integrate with dt above the epsilon sets position to
\* P + (P - P_prev) * (1 - drag) + acceleration * dt^2 and previous_position to
\* the old P, and leaves velocity and force accumulator unchanged.
C13_VerletStep ==
    (Integrated /\ integrator.kind = "verlet" /\ IntegratedDt > kDtEpsilon) =>
        LET P == pre[1].position
            displacement == [k \in 1..3 |-> P[k] - pre[1].previous_position[k]]
            dt2 == RoundDiv(IntegratedDt * IntegratedDt, Scale)
        IN /\ particles[1].position
                = Advance(Advance(P, displacement, Scale - integrator.drag),
                          IntegratedAcceleration, dt2)
           /\ particles[1].previous_position = P
           /\ particles[1].velocity = pre[1].velocity
           /\ particles[1].force_accumulator = pre[1].force_accumulator

C13_Witness ==
    /\ Integrated
    /\ integrator.kind = "verlet"
    /\ integrator.drag = 300
    /\ IntegratedDt = 100
    /\ IntegratedAcceleration = <<2000, -9800, 0>>
    /\ pre[1].position # pre[1].previous_position
    /\ pre[1].force_accumulator # Zero3
    /\ pre[1].velocity # Zero3
    /\ particles[1].previous_position = pre[1].position
    /\ particles[1].position # pre[1].position

\* C14: for both integrators, Integrate with dt = 0, dt < 0 or a positive dt
\* not above the epsilon leaves position, velocity and previous_position
\* unchanged.
C14_NoStepNoChange ==
    (Integrated /\ IntegratedDt <= kDtEpsilon) =>
        /\ particles[1].position = pre[1].position
        /\ particles[1].velocity = pre[1].velocity
        /\ particles[1].previous_position = pre[1].previous_position

\* C15: the drag of a VerletIntegrator is within [0,1] in every state; the
\* constructor and set_drag store their argument clamped to [0,1].
C15_DragClamped ==
    integrator.kind = "verlet" =>
        /\ 0 <= integrator.drag /\ integrator.drag <= Scale
        /\ lastOp \in {"constructed", "set_drag"} =>
              integrator.drag = IF lastArgs[1] < 0 THEN 0
                                ELSE IF lastArgs[1] > Scale THEN Scale
                                ELSE lastArgs[1]

C15_Witness ==
    /\ integrator.kind = "verlet"
    /\ lastOp = "set_drag"
    /\ lastArgs = <<1500>>
    /\ integrator.drag = Scale
    /\ steps = 3

\* ---- Spring::Spring
\* C16: constructing a Spring throws invalid_argument, and makes no Spring,
\* when a particle pointer is null, both are the same particle,
\* stiffness <= 0, damping < 0 or an explicit rest length is < 0, with either
\* constructor; for all other arguments it makes the Spring.
C16_SpringConstructorValidates ==
    lastOp = "Spring" =>
        LET stiffness == lastArgs[1]
            damping == lastArgs[2]
            a == lastArgs[3]
            b == lastArgs[4]
            explicit == lastArgs[5]
            rest_length == lastArgs[6]
            invalid == \/ a = kNull
                       \/ b = kNull
                       \/ a = b
                       \/ stiffness <= 0
                       \/ damping < 0
                       \/ explicit /\ rest_length < 0
        IN /\ invalid => thrown = "invalid_argument" /\ springs = <<>>
           /\ ~invalid =>
                 /\ thrown = "none"
                 /\ Len(springs) = 1
                 /\ springs[1].stiffness = stiffness
                 /\ springs[1].damping = damping
                 /\ springs[1].particle_a = a
                 /\ springs[1].particle_b = b
                 /\ explicit => springs[1].rest_length = rest_length

C16_Witness ==
    /\ lastOp = "Spring"
    /\ lastArgs = <<0, 5000, 1, 2, FALSE, 0>>
    /\ thrown = "invalid_argument"
    /\ springs = <<>>
    /\ steps = 2

\* ---- Simulation::AddSpring, Simulation::AddConstraint
\* the arguments of the last AddSpring or AddConstraint are ones the claim
\* calls invalid
InvalidRegistration ==
    \/ /\ lastOp = "AddSpring"
       /\ \/ lastArgs[3] = kNull
          \/ lastArgs[4] = kNull
          \/ lastArgs[3] = lastArgs[4]
          \/ lastArgs[1] <= 0
          \/ lastArgs[2] < 0
    \/ /\ lastOp = "AddConstraint"
       /\ \/ lastArgs[2] = kNull
          \/ lastArgs[3] = kNull
          \/ lastArgs[2] = lastArgs[3]
          \/ lastArgs[1] < 0

\* C17: AddSpring and AddConstraint report invalid input (a null pointer,
\* the same particle twice, parameters the constructor rejects) to their
\* caller as an error at the time of the call, and never accept it.
C17_InvalidRegistrationReported ==
    /\ InvalidRegistration => thrown # "none"
    /\ \A k \in DOMAIN springs :
          /\ springs[k].particle_a \notin {kNull, springs[k].particle_b}
          /\ springs[k].particle_b # kNull
          /\ springs[k].stiffness > 0
          /\ springs[k].damping >= 0
    /\ \A k \in DOMAIN constraints :
          /\ constraints[k].particle_a \notin {kNull, constraints[k].particle_b}
          /\ constraints[k].particle_b # kNull
          /\ constraints[k].length >= 0

\* ---- force generators
\* what generator fg contributes to the accumulator of the Active particle p
Contribution(fg, p) ==
    IF fg.kind = "gravity"
    THEN IF p.mass > 0
         THEN [k \in 1..3 |-> RoundDiv(fg.acceleration[k] * p.mass, Scale)]
         ELSE Zero3
    ELSE [k \in 1..3 |-> RoundDiv(p.velocity[k] * (-fg.drag_coefficient), Scale)]

RECURSIVE SumOfContributions(_, _, _)
SumOfContributions(order, p, k) ==
    IF k > Len(order) THEN Zero3
    ELSE LET c == Contribution(force_generators[order[k]], p)
             rest == SumOfContributions(order, p, k + 1)
         IN <<c[1] + rest[1], c[2] + rest[2], c[3] + rest[3]>>

\* C18: applying generators to an Active particle whose accumulator held F0
\* leaves F0 plus the sum of the generators' contributions in the
\* accumulator, whatever the order they were applied in, and changes nothing
\* else of the particle.
C18_GeneratorsAdd ==
    (lastOp = "ApplyForce" /\ pre[1].type = kActive) =>
        LET sum == SumOfContributions(lastArgs, pre[1], 1)
            F0 == pre[1].force_accumulator
        IN particles[1] =
              [pre[1] EXCEPT !.force_accumulator =
                  <<F0[1] + sum[1], F0[2] + sum[2], F0[3] + sum[3]>>]

C18_Witness ==
    /\ lastOp = "ApplyForce"
    /\ lastArgs = <<2, 3, 1>>
    /\ pre[1].type = kActive
    /\ pre[1].mass = 2500
    /\ pre[1].velocity = <<1000, -2000, 500>>
    /\ force_generators[2].drag_coefficient = 500
    /\ pre[1].force_accumulator = <<10000, 0, 5000>>
    /\ particles[1].force_accumulator = <<12000, -23500, -250>>

\* ---- Medium
\* C20: the drag coefficient of a Medium is >= 0 in every state; constructing
\* a Medium with a negative coefficient throws invalid_argument and makes no
\* Medium, and set_drag_coefficient with a negative value throws
\* invalid_argument and leaves the stored coefficient as it was.
C20_DragCoefficientNeverNegative ==
    /\ [](\A k \in DOMAIN force_generators :
             force_generators[k].kind = "medium"
             => force_generators[k].drag_coefficient >= 0)
    /\ [][/\ (lastOp' = "Medium" /\ lastArgs'[1] < 0) =>
                thrown' = "invalid_argument" /\ force_generators' = <<>>
          /\ (lastOp' = "set_drag_coefficient" /\ lastArgs'[1] < 0) =>
                /\ thrown' = "invalid_argument"
                /\ force_generators' = force_generators]_vars

C20_Witness ==
    /\ lastOp = "set_drag_coefficient"
    /\ lastArgs = <<-1>>
    /\ thrown = "invalid_argument"
    /\ Len(force_generators) = 1
    /\ force_generators[1].drag_coefficient = 500
    /\ particles[1].force_accumulator = <<-500, 1000, -250>>

\* ---- particles of mass zero or less
\* C19: a particle with mass <= 0 is never an error and gets no force or
\* acceleration derived from its mass: ApplyForces adds only the forces of
\* the other generators to its accumulator, and IntegrateParticles integrates
\* it with zero acceleration.
C19_NoMassNoGravity ==
    /\ thrown = "none"
    /\ \A i \in DOMAIN particles :
          (particles[i].mass <= 0 /\ particles[i].type = kActive) =>
              /\ lastOp = "ApplyForces" =>
                    LET sum == SumOfContributions(
                                   [k \in DOMAIN force_generators |-> k],
                                   pre[i], 1)
                        F0 == pre[i].force_accumulator
                    IN /\ \A k \in DOMAIN force_generators :
                             force_generators[k].kind = "gravity"
                             => Contribution(force_generators[k], pre[i]) = Zero3
                       /\ particles[i].force_accumulator =
                             <<F0[1] + sum[1], F0[2] + sum[2], F0[3] + sum[3]>>
              /\ (lastOp = "IntegrateParticles" /\ dt > 0) =>
                    IF integrator.kind = "euler"
                    THEN /\ particles[i].velocity = pre[i].velocity
                         /\ particles[i].position =
                               Advance(pre[i].position, pre[i].velocity, dt)
                    ELSE /\ particles[i].previous_position = pre[i].position
                         /\ particles[i].position =
                               Advance(pre[i].position,
                                       [k \in 1..3 |->
                                           pre[i].position[k]
                                             - pre[i].previous_position[k]],
                                       Scale - integrator.drag)

C19_Witness ==
    /\ lastOp = "IntegrateParticles"
    /\ Len(particles) = 1
    /\ particles[1].mass = -1000
    /\ particles[1].type = kActive
    /\ integrator.kind = "euler"
    /\ steps = 2
    /\ pre[1].force_accumulator = <<-500, 1000, 0>>
    /\ particles[1].velocity = <<1000, -2000, 0>>
    /\ particles[1].position = <<200, 9600, 0>>

\* C21: the dissipative coefficient of the Simulation lies in [0, 1] in every
\* reachable state: it is 0.5 after construction and is still within [0, 1]
\* after any calls of set_dissipative_coefficient, whatever their arguments.
C21_DissipativeInUnitInterval ==
    /\ lastOp = "constructed" => dissipative_coefficient = kHalf
    /\ 0 <= dissipative_coefficient
    /\ dissipative_coefficient <= Scale

RECURSIVE Flatten(_)
Flatten(ss) == IF ss = <<>> THEN <<>> ELSE Head(ss) \o Flatten(Tail(ss))

\* the particles of the stored owners, by their pointers
OwnedPointers ==
    SelectSeq(owners.owned_particles \o Flatten(owners.cubes)
                  \o Flatten(owners.cloths)
                  \o Flatten(owners.particle_generators),
              LAMBDA q : q # kNull)

\* C22: after any AddParticle, AddCube, AddCloth and AddParticleGenerator
\* calls the particle list holds exactly the particles of the stored owners,
\* each of them once, and no particle whose owner was not stored.
C22_ListHoldsOwnedOnce ==
    /\ \A k \in DOMAIN OwnedPointers : OwnedPointers[k] \in DOMAIN particles
    /\ \A q \in DOMAIN particles :
          Cardinality({k \in DOMAIN OwnedPointers : OwnedPointers[k] = q}) = 1

\* a cube and a generator with a reset entry are stored with the two
\* particles that were there
C22_Witness ==
    /\ Len(owners.cubes) = 1
    /\ Len(owners.particle_generators) = 1
    /\ kNull \in {owners.particle_generators[1][k] : k \in 1..3}
    /\ Len(particles) = 12

\* the call name(args) is one that does not register
Unregistering(name, args) ==
    \/ /\ name \in {"AddPlane", "AddParticle", "AddForceGenerator",
                    "AddParticleGenerator", "AddCube", "AddCloth"}
       /\ args[1] = <<>>
    \/ /\ name = "AddCloth"
       /\ args[1] # <<>>
       /\ (args[1][1].dim_u <= 1 \/ args[1][1].dim_v <= 1)
    \/ /\ name = "AddSpring"
       /\ (args[3] = kNull \/ args[4] = kNull \/ args[3] = args[4])
    \/ /\ name = "AddConstraint"
       /\ (args[2] = kNull \/ args[3] = kNull \/ args[2] = args[3])
    \/ /\ name = "AddSpring"
       /\ ConstructSpring(particles, args[1], args[2], args[3], args[4],
                          FALSE, 0).thrown # "none"

\* springs' holds one more Spring than springs exactly if the construction
\* of Spring(args) succeeds, and likewise constraints'
InCollectionIffConstructed(name, args) ==
    /\ name = "AddSpring" =>
          LET r == ConstructSpring(particles, args[1], args[2], args[3],
                                   args[4], FALSE, 0)
          IN springs' = springs \o r.made
    /\ name = "AddConstraint" =>
          LET r == ConstructConstraint(args[1], args[2], args[3])
          IN constraints' = constraints \o r.made

\* C30: a registration call that does not register (a null argument, a cloth
\* of dimension <= 1, a null or repeated particle, a Spring whose
\* construction fails) changes no collection and nothing else of the
\* simulation; a call of AddSpring or AddConstraint puts a spring or a
\* constraint in its collection exactly if its construction succeeded.
C30_UnregisteredChangesNothing ==
    [][steps' = steps + 1 =>
          /\ Unregistering(lastOp', lastArgs') =>
                UNCHANGED <<particles, planes, springs, constraints,
                            force_generators, owners, integrator,
                            dissipative_coefficient>>
          /\ InCollectionIffConstructed(lastOp', lastArgs')]_vars

\* a degenerate cloth was rejected by a simulation that holds a cloth
C30_Witness ==
    /\ lastOp = "AddCloth"
    /\ lastArgs[1] # <<>>
    /\ lastArgs[1][1].dim_u <= 1
    /\ Len(owners.cloths) = 1
    /\ particles = pre
    /\ Len(springs) > 0

\* the last operation was ApplyForce of the spring, on coincident endpoints
SpringAppliedCoincident ==
    /\ lastOp = "SpringApplyForce"
    /\ Distance(pre[springs[1].particle_a], pre[springs[1].particle_b])
           < kLengthEpsilon

\* C23: Spring::ApplyForce on coincident endpoints raises no error and leaves
\* the force accumulators of both endpoints exactly as they were, whatever
\* the stiffness, damping, rest length and velocities.
C23_CoincidentAddsNothing ==
    SpringAppliedCoincident =>
        /\ thrown = "none"
        /\ \A i \in DOMAIN particles :
              particles[i].force_accumulator = pre[i].force_accumulator

\* coincident Active endpoints that approach each other, one of them loaded
\* with a force, on a damped spring of rest length 1
C23_Witness ==
    /\ SpringAppliedCoincident
    /\ BothActive(1, 2)
    /\ pre[1].velocity # pre[2].velocity
    /\ springs[1].rest_length > 0
    /\ springs[1].damping > 0
    /\ \E i \in DOMAIN pre : pre[i].force_accumulator # Zero3

\* the calls of exactly 10 passes over n constraints, each pass visiting
\* every constraint once in registration order
TenPasses(n) ==
    [q \in 1..(10 * n) |-> <<(q - 1) \div n, ((q - 1) % n) + 1>>]

\* the particles ps after the SatisfyConstraint calls from the q-th on
RECURSIVE Replayed(_, _, _)
Replayed(ps, calls, q) ==
    IF q > Len(calls) \/ Len(ps) = 0 THEN ps
    ELSE Replayed(SatisfyConstraint(ps, constraints[calls[q][2]]), calls,
                  q + 1)

\* C24: in one Update the constraint phase makes exactly 10 relaxation
\* passes, and each pass calls SatisfyConstraint once on every registered
\* constraint, in registration order: every constraint is satisfied 10 times,
\* pass n + 1 starts after pass n has visited all constraints, and the
\* particles are what these calls make of them.
C24_TenPassesInOrder ==
    lastOp = "UpdateConstraints" =>
        /\ satisfied = TenPasses(Len(constraints))
        /\ \A k \in DOMAIN constraints :
              Cardinality({q \in DOMAIN satisfied : satisfied[q][2] = k}) = 10
        /\ particles = Replayed(pre, satisfied, 1)

\* a chain of two rods was relaxed and its movable particles were moved
C24_Witness ==
    /\ lastOp = "UpdateConstraints"
    /\ Len(constraints) = 2
    /\ Len(satisfied) = 20
    /\ particles # pre

\* ---- Simulation::HandleCollisions, the velocities
\* HandleCollisions has just run on two particles and no plane, and the two
\* overlapped without being coincident
PairResolved ==
    /\ lastOp = "HandleCollisions"
    /\ Len(particles) = 2
    /\ planes = <<>>
    /\ pre[1].position # pre[2].position
    /\ Distance(pre[1], pre[2]) < pre[1].radius + pre[2].radius

\* the unit normal from the second particle to the first
PairNormal ==
    LET delta == VSub(pre[1].position, pre[2].position)
    IN [k \in 1..3 |-> Sgn(delta[k])
                         * RoundDiv(Abs(delta[k]) * Scale, Distance(pre[1], pre[2]))]

\* the relative velocity along the normal
PairApproach == Along(VSub(pre[1].velocity, pre[2].velocity), PairNormal)

\* what HandleCollisions added to the velocity of particle i
Kicked(i) == VSub(particles[i].velocity, pre[i].velocity)

\* v is the vector w * share / 1, up to rounding
Near(v, w, share) ==
    \A k \in 1..3 : Abs(v[k] - RoundDiv(w[k] * share, Scale)) <= Tol

\* C25: for an overlapping, non-coincident pair HandleCollisions changes the
\* velocities only if the pair approaches (vn < 0); then the impulse
\* -(1 + dissipative coefficient) * vn along the normal is shared like the
\* positional correction: half each, in opposite directions, for two Active
\* particles, all of it to the movable one when exactly one is Fixed, nothing
\* when both are Fixed.  A separating or tangentially moving pair keeps its
\* velocities.
C25_ImpulseOnApproachOnly ==
    PairResolved =>
        LET vn == PairApproach
            J == -RoundDiv((Scale + dissipative_coefficient) * vn, Scale)
            impulse == [k \in 1..3 |-> RoundDiv(PairNormal[k] * J, Scale)]
            fixed1 == pre[1].type = kFixed
            fixed2 == pre[2].type = kFixed
        IN /\ vn >= 0 => Kicked(1) = Zero3 /\ Kicked(2) = Zero3
           /\ (vn < 0 /\ ~fixed1 /\ ~fixed2) =>
                 Near(Kicked(1), impulse, kHalf) /\ Near(Kicked(2), impulse, -kHalf)
           /\ (vn < 0 /\ ~fixed1 /\ fixed2) =>
                 Near(Kicked(1), impulse, Scale) /\ Kicked(2) = Zero3
           /\ (vn < 0 /\ fixed1 /\ ~fixed2) =>
                 Kicked(1) = Zero3 /\ Near(Kicked(2), impulse, -Scale)
           /\ (fixed1 /\ fixed2) => Kicked(1) = Zero3 /\ Kicked(2) = Zero3

\* two Active particles that approached each other were kicked apart
C25_Witness ==
    /\ PairResolved
    /\ BothActive(1, 2)
    /\ PairApproach < 0
    /\ Kicked(1) # Zero3
    /\ Kicked(1) = VNeg(Kicked(2))


\* HandleCollisions has just run with one plane and no pair of particles to
\* resolve, so that what it did to a particle is what the plane did
PlaneResolved ==
    /\ lastOp = "HandleCollisions"
    /\ Len(planes) = 1
    /\ \A i, j \in DOMAIN pre :
          i < j => \/ pre[i].position = pre[j].position
                   \/ Distance(pre[i], pre[j]) >= pre[i].radius + pre[j].radius

\* how far particle p is inside the plane
Depth(p, plane) ==
    p.radius - Along(VSub(p.position, plane.position), plane.normal)

\* v without its component along n
Tangential(v, n) ==
    LET vn == Along(v, n)
    IN [k \in 1..3 |-> v[k] - RoundDiv(n[k] * vn, Scale)]

\* C26: in HandleCollisions a particle that penetrates a plane and is not
\* Fixed is moved along the normal by the penetration depth, so that it
\* touches the plane; if its velocity along the normal vn is negative, that
\* component becomes -(dissipative coefficient) * vn and the tangential
\* components stay; a particle that does not penetrate and a Fixed particle
\* are left unchanged.
C26_PlanePushesOutAndReflects ==
    PlaneResolved =>
        \A i \in DOMAIN particles :
            LET p == pre[i]
                q == particles[i]
                n == planes[1].normal
                depth == Depth(p, planes[1])
                vn == Along(p.velocity, n)
            IN IF depth <= 0 \/ p.type = kFixed THEN q = p
               ELSE /\ Near(VSub(q.position, p.position), n, depth)
                    /\ Abs(Depth(q, planes[1])) <= Tol
                    /\ IF vn < 0
                       THEN /\ Abs(Along(q.velocity, n)
                                   + RoundDiv(dissipative_coefficient * vn,
                                              Scale)) <= Tol
                            /\ \A k \in 1..3 :
                                  Abs(Tangential(q.velocity, n)[k]
                                      - Tangential(p.velocity, n)[k]) <= Tol
                       ELSE q.velocity = p.velocity
                    /\ [q EXCEPT !.position = Zero3, !.velocity = Zero3]
                         = [p EXCEPT !.position = Zero3, !.velocity = Zero3]

\* an Active particle that slid into the tilted plane was pushed out and
\* bounced, keeping its velocity along the plane
C26_Witness ==
    /\ PlaneResolved
    /\ planes[1] = TiltedPlane
    /\ pre[1].type = kActive
    /\ Depth(pre[1], planes[1]) > 0
    /\ Along(pre[1].velocity, planes[1].normal) < 0
    /\ Along(particles[1].velocity, planes[1].normal) > 0
    /\ Tangential(pre[1].velocity, planes[1].normal) # Zero3

\* ---- Simulation::UpdateParticles, forces before integration
\* the accumulators all the generators and springs make of the state st
Accumulated(st) ==
    UpdateSprings(ApplyForces(ClearParticleForces(st), force_generators),
                  springs, 1)

\* the particles were integrated after exactly the two force phases, from
\* accumulators that hold the forces of the state before the integration
ForcesCompleteAtIntegration ==
    lastOp = "IntegrateParticles" =>
        /\ phaseLog = <<"ApplyForces", "UpdateSprings", "IntegrateParticles">>
        /\ pre = Accumulated(pre)

\* the step starts with empty accumulators
StepStartsCleared ==
    lastOp = "Update" =>
        \A i \in DOMAIN particles : particles[i].force_accumulator = Zero3

\* the force phases change no position and no velocity, so that the state
\* before the integration is the state at the start of the step
ForcePhasesKeepMotion ==
    lastOp' \in {"ApplyForces", "UpdateSprings"} =>
        \A i \in DOMAIN particles :
            /\ particles'[i].position = particles[i].position
            /\ particles'[i].velocity = particles[i].velocity
            /\ particles'[i].previous_position = particles[i].previous_position

\* particle i was integrated with the acceleration accumulator / mass
IntegratedWithForceOverMass(i) ==
    /\ pre[i].mass # 0
    /\ particles[i] = Integrate(integrator,
                                VDiv(pre[i].force_accumulator, pre[i].mass),
                                pre[i], dt)

C28_FixedAccumulatesNothing ==
    \A i \in DOMAIN particles :
        start[i].type = kFixed => particles[i].force_accumulator = Zero3

\* a force was added directly to the Fixed first particle, to no effect,
\* after the Active second particle had accumulated one
C28_Witness ==
    /\ start[1].type = kFixed
    /\ start[2].type = kActive
    /\ lastOp = "AddForce"
    /\ particles = pre
    /\ particles[2].force_accumulator # Zero3
    /\ particles[1].force_accumulator = Zero3

\* position, velocity and previous position of every particle
Motion(ps) ==
    [i \in DOMAIN ps |->
        <<ps[i].position, ps[i].velocity, ps[i].previous_position>>]

\* the constraint and collision corrections of one step, on the particles st
Corrected(st) ==
    HandleCollisions(UpdateConstraints(Relaxation(st), constraints, 0).particles,
                     planes, dissipative_coefficient)

\* C29: Update(dt) with dt <= 0 skips only the integration: the forces are
\* accumulated, the 10 constraint passes, the collision resolution and the
\* force clearing still run, so positions and velocities after the call
\* differ from those before it exactly by the constraint and collision
\* corrections, and all accumulators are zero.
C29_OnlyIntegrationSkipped ==
    dt <= 0 =>
        /\ lastOp = "IntegrateParticles" =>
              /\ particles = pre
              /\ pre = Accumulated(pre)
        /\ lastOp \in {"ApplyForces", "UpdateSprings", "ClearParticleForces"} =>
              Motion(particles) = Motion(pre)
        /\ lastOp = "UpdateConstraints" =>
              Len(satisfied) = 10 * Len(constraints)
        /\ Returned =>
              /\ phaseLog = UpdateParticles
              /\ Len(satisfied) = 10 * Len(constraints)
              /\ \A i \in DOMAIN particles :
                    particles[i].force_accumulator = Zero3
        /\ (Returned /\ steps = 1) =>
              particles = ClearParticleForces(Corrected(start))

\* a step back in time returned: the first particle, which was moving, was
\* moved by the rod and stopped from sinking by the plane, and nothing else
C29_Witness ==
    /\ dt < 0
    /\ Returned
    /\ steps = 1
    /\ integrator = Euler
    /\ start[1].type = kActive
    /\ start[1].velocity # Zero3
    /\ particles[1].position # start[1].position
    /\ particles[1].velocity # start[1].velocity
    /\ particles = ClearParticleForces(Corrected(start))
    /\ Len(satisfied) = 10

====
